---- MODULE Spec2Model ----
(***************************************************************************)
(* Model of the sync-engine crate: the per-column versioned row store      *)
(* (storage/sqlite.rs, storage/memory.rs), the mutation builders (row.rs), *)
(* the merge algorithm (table.rs, merge.rs) and the pairwise / mesh sync   *)
(* protocol (sync.rs).                                                     *)
(*                                                                         *)
(* Values are byte strings (sequences of bytes), versions are naturals.    *)
(* DagNode.timestamp is wall-clock time that no operation reads; it is not *)
(* part of the state.                                                      *)
(***************************************************************************)
EXTENDS Integers, Sequences, FiniteSets, TLC

\* ------------------------------------------------------------------ bounds
NumPeers == 3          \* peers of a mesh
MaxVersion == 2        \* greatest version a caller passes to insert / puts in a changeset

Peers == 1..NumPeers
PKs == {"u1"}
Cols == {"name", "city"}
Keys == PKs \X Cols
Values == {<<97>>, <<97, 98>>, <<98>>}
Policies == {"PreferExisting", "PreferIncoming", "LexicographicMin"}

\* ------------------------------------------------------ storage data types
None == -1                                   \* Option::None of an Option<u64>

Absent == [present |-> FALSE, value |-> <<>>, version |-> 0]

Cell(value, version) == [present |-> TRUE, value |-> value, version |-> version]

DagNode(version, value, parent_version, parent2_version) ==
    [version |-> version, value |-> value, parent_version |-> parent_version,
     parent2_version |-> parent2_version, is_tombstone |-> FALSE]

\* A freshly opened storage: no cells, no history, no open transaction.
\* keys are the (pk, col) pairs the run will address.
EmptyStorageOver(kind, keys) ==
    [kind |-> kind,
     cells |-> [k \in keys |-> Absent],
     dag |-> [k \in keys |-> <<>>],
     in_transaction |-> FALSE]

EmptyStorage(kind) == EmptyStorageOver(kind, Keys)

\* ------------------------------------------------------- storage operations
get_cell(st, k) == st.cells[k]

set_cell(st, k, cell) == [st EXCEPT !.cells[k] = cell]

\* The rows come back ORDER BY version: node goes in front of the first node
\* of a greater version.
InsertSorted(hist, node) ==
    LET greater == {i \in 1..Len(hist) : node.version < hist[i].version}
        at == IF greater = {} THEN Len(hist) + 1
              ELSE CHOOSE i \in greater : \A j \in greater : i <= j
    IN SubSeq(hist, 1, at - 1) \o <<node>> \o SubSeq(hist, at, Len(hist))

\* INSERT OR REPLACE on the primary key (pk, col, version).
InsertOrReplace(hist, node) ==
    InsertSorted(SelectSeq(hist, LAMBDA n : n.version # node.version), node)

append_dag_node(st, k, node) ==
    IF st.kind = "sqlite"
    THEN [st EXCEPT !.dag[k] = InsertOrReplace(@, node)]
    ELSE [st EXCEPT !.dag[k] = Append(@, node)]

get_dag_history(st, k) == st.dag[k]

\* The columns of pk that hold a cell; get_row is None when there is none.
RowCols(st, pk) == {k[2] : k \in {x \in DOMAIN st.cells : x[1] = pk /\ st.cells[x].present}}

all_pks(st) == {k[1] : k \in {x \in DOMAIN st.cells : st.cells[x].present}}

\* Mutant: the cells of pk are deleted, its DAG nodes are left behind.
delete_row_CellsOnly(st, pk) ==
    [st EXCEPT !.cells = [k \in DOMAIN st.cells |-> IF k[1] = pk THEN Absent ELSE @[k]]]

\* Both tables lose the rows of pk (sqlite); the row entry goes (memory).
delete_row(st, pk) ==
    [st EXCEPT !.cells = [k \in DOMAIN st.cells |-> IF k[1] = pk THEN Absent ELSE @[k]],
               !.dag = [k \in DOMAIN st.dag |-> IF k[1] = pk THEN <<>> ELSE @[k]]]

begin_transaction(st) ==
    IF st.kind = "sqlite" /\ ~st.in_transaction
    THEN [st EXCEPT !.in_transaction = TRUE] ELSE st

commit_transaction(st) ==
    IF st.kind = "sqlite" /\ st.in_transaction
    THEN [st EXCEPT !.in_transaction = FALSE] ELSE st

\* gc_dag(pk, col, keep_versions): the result is [st, removed, panicked].
\* sqlite: the history is read in version order, the version at index
\* len - keep_versions is the cutoff and every node below it is deleted; the
\* index is out of range when keep_versions = 0.  memory: the first
\* len - keep_versions nodes of the vector are drained.
gc_dag(st, k, keep_versions) ==
    LET history == get_dag_history(st, k)
        len == Len(history)
    IN IF len <= keep_versions
       THEN [st |-> st, removed |-> 0, panicked |-> FALSE]
       ELSE IF st.kind = "sqlite"
       THEN LET cutoff_idx == len - keep_versions
            IN IF cutoff_idx >= len
               THEN [st |-> st, removed |-> 0, panicked |-> TRUE]
               ELSE LET cutoff_version == history[cutoff_idx + 1].version
                        kept == SelectSeq(history, LAMBDA n : n.version >= cutoff_version)
                    IN [st |-> [st EXCEPT !.dag[k] = kept],
                        removed |-> len - Len(kept), panicked |-> FALSE]
       ELSE LET removed == len - keep_versions
            IN [st |-> [st EXCEPT !.dag[k] = SubSeq(history, removed + 1, len)],
                removed |-> removed, panicked |-> FALSE]

\* --------------------------------------------------------- byte comparison
\* Ord on &[u8]: lexicographic, a proper prefix is smaller.
RECURSIVE LexLess(_, _)
LexLess(a, b) ==
    IF b = <<>> THEN FALSE
    ELSE IF a = <<>> THEN TRUE
    ELSE IF Head(a) < Head(b) THEN TRUE
    ELSE IF Head(a) > Head(b) THEN FALSE
    ELSE LexLess(Tail(a), Tail(b))

\* ------------------------------------------------------------------ merge.rs
\* Mutant: a tie is accepted like a newer remote version.
resolve_versions_AcceptTie(local_version, remote_version) ==
    IF local_version <= remote_version THEN "Accept" ELSE "Reject"

\* Mutant: the comparison is the wrong way round.
resolve_versions_Swapped(local_version, remote_version) ==
    IF local_version > remote_version THEN "Accept"
    ELSE IF local_version < remote_version THEN "Reject"
    ELSE "Conflict"

resolve_versions(local_version, remote_version) ==
    IF local_version < remote_version THEN "Accept"
    ELSE IF local_version > remote_version THEN "Reject"
    ELSE "Conflict"

\* Mutant: LexicographicMin keeps the greater value.
resolve_conflict_LexMax(local_value, remote_value, policy) ==
    CASE policy = "PreferExisting" -> FALSE
      [] policy = "PreferIncoming" -> TRUE
      [] policy = "LexicographicMin" -> LexLess(local_value, remote_value)

\* Mutant: LexicographicMin falls into the PreferExisting arm.
resolve_conflict_KeepLocal(local_value, remote_value, policy) ==
    CASE policy = "PreferExisting" -> FALSE
      [] policy = "PreferIncoming" -> TRUE
      [] policy = "LexicographicMin" -> FALSE

resolve_conflict(local_value, remote_value, policy) ==
    CASE policy = "PreferExisting" -> FALSE
      [] policy = "PreferIncoming" -> TRUE
      [] policy = "LexicographicMin" -> LexLess(remote_value, local_value)

EmptyReport == [inserted |-> 0, updated |-> 0, skipped |-> 0, conflicts |-> 0]

\* Mutant: skipped cells are counted as changes.
total_changes_CountsSkipped(report) == report.inserted + report.updated + report.skipped

total_changes(report) == report.inserted + report.updated

\* -------------------------------------------------------------------- row.rs
\* InsertBuilder::commit for one (col, value, version): the caller's version
\* is stored as given.
InsertColumn(st, k, value, version) ==
    LET current == get_cell(st, k)
        current_version == IF current.present THEN current.version ELSE 0
        st1 == set_cell(st, k, Cell(value, version))
        node == DagNode(version, value,
                        IF current_version > 0 THEN current_version ELSE None, None)
    IN append_dag_node(st1, k, node)

\* Mutant: the update keeps the stored version instead of bumping it.
UpdateColumn_NoBump(st, k, value) ==
    LET current == get_cell(st, k)
        new_version == IF current.present THEN current.version ELSE 1
        parent_version == IF current.present THEN current.version ELSE None
        st1 == set_cell(st, k, Cell(value, new_version))
    IN append_dag_node(st1, k, DagNode(new_version, value, parent_version, None))

\* UpdateBuilder::commit for one (col, value): version current + 1, or 1.
UpdateColumn(st, k, value) ==
    LET current == get_cell(st, k)
        new_version == IF current.present THEN current.version + 1 ELSE 1
        parent_version == IF current.present THEN current.version ELSE None
        st1 == set_cell(st, k, Cell(value, new_version))
    IN append_dag_node(st1, k, DagNode(new_version, value, parent_version, None))

\* ------------------------------------------------------------------ table.rs
\* A changeset: cols maps (pk, col) to the value, vers maps (pk, col) to the
\* version; a column without an entry in vers is merged at version 1.
CsKeys(cs) == DOMAIN cs.cols

RemoteVersion(cs, k) == IF k \in DOMAIN cs.vers THEN cs.vers[k] ELSE 1

\* The cells a table holds.
CellKeys(st) == {k \in DOMAIN st.cells : st.cells[k].present}

\* CrrTable::changeset: every cell of every row, value and version.
changeset(st) ==
    LET ks == {k \in DOMAIN st.cells : k[1] \in all_pks(st) /\ st.cells[k].present}
    IN [cols |-> [k \in ks |-> st.cells[k].value],
        vers |-> [k \in ks |-> st.cells[k].version]]

\* Mutant: the local version is taken per row (the greatest version of any
\* column of the pk) instead of per column.
LocalOf_RowVersion(st, k) ==
    LET cell == get_cell(st, k)
        others == {st.cells[x].version : x \in {y \in Keys : y[1] = k[1] /\ st.cells[y].present}}
    IN IF cell.present
       THEN [cell EXCEPT !.version = CHOOSE n \in others : \A m \in others : m <= n]
       ELSE cell

\* Mutant: merge reads the DAG, taking the number of nodes of the column's
\* history as the local version.
LocalOf_DagDepth(st, k) ==
    LET cell == get_cell(st, k)
    IN IF cell.present THEN [cell EXCEPT !.version = Len(get_dag_history(st, k))] ELSE cell

\* The local (value, version) merge compares a changeset cell against.
LocalOf(st, k) == get_cell(st, k)

\* The body of merge's inner loop for one changeset cell.  acc is
\* [st, report, panicked]; panicked is the unwrap of an absent local value.
MergeCell(acc, cs, policy, k) ==
    LET st == acc.st
        report == acc.report
        remote_value == cs.cols[k]
        remote_version == RemoteVersion(cs, k)
        local == LocalOf(st, k)
        local_version == IF local.present THEN local.version ELSE 0
        decision == resolve_versions(local_version, remote_version)
    IN CASE decision = "Accept" ->
              LET st1 == set_cell(st, k, Cell(remote_value, remote_version))
                  node == DagNode(remote_version, remote_value,
                                  IF local_version > 0 THEN local_version ELSE None, None)
                  st2 == append_dag_node(st1, k, node)
              IN [acc EXCEPT !.st = st2,
                             !.report = IF local_version = 0
                                        THEN [report EXCEPT !.inserted = @ + 1]
                                        ELSE [report EXCEPT !.updated = @ + 1]]
         [] decision = "Reject" ->
              [acc EXCEPT !.report.skipped = @ + 1]
         [] decision = "Conflict" ->
              IF ~local.present THEN [acc EXCEPT !.panicked = TRUE]
              ELSE IF local.value = remote_value
              THEN [acc EXCEPT !.report.skipped = @ + 1]
              ELSE IF resolve_conflict(local.value, remote_value, policy)
              THEN LET new_version == remote_version + 1
                       st1 == set_cell(st, k, Cell(remote_value, new_version))
                       node == DagNode(new_version, remote_value, local_version, remote_version)
                       st2 == append_dag_node(st1, k, node)
                   IN [acc EXCEPT !.st = st2,
                                  !.report.conflicts = @ + 1,
                                  !.report.updated = @ + 1]
              ELSE [acc EXCEPT !.report.conflicts = @ + 1]

\* The loop over the changeset; the cells are visited in the map's order.
RECURSIVE MergeLoop(_, _, _, _)
MergeLoop(acc, cs, policy, todo) ==
    IF todo = {} \/ acc.panicked THEN acc
    ELSE LET k == CHOOSE x \in todo : TRUE
         IN MergeLoop(MergeCell(acc, cs, policy, k), cs, policy, todo \ {k})

\* CrrTable::merge when every storage call succeeds: begin, loop, commit.
\* The result is [st, report, panicked]; a panicking merge returns nothing.
merge(st, cs, policy) ==
    LET acc == MergeLoop([st |-> begin_transaction(st), report |-> EmptyReport,
                          panicked |-> FALSE], cs, policy, CsKeys(cs))
    IN IF acc.panicked THEN acc ELSE [acc EXCEPT !.st = commit_transaction(acc.st)]

\* CrrTable::gc: gc_dag on every column that holds a cell, of every pk; the
\* removed counts are added up.  acc is [st, removed, panicked].
RECURSIVE GcLoop(_, _, _)
GcLoop(acc, keep_versions, todo) ==
    IF todo = {} \/ acc.panicked THEN acc
    ELSE LET k == CHOOSE x \in todo : TRUE
             res == gc_dag(acc.st, k, keep_versions)
         IN GcLoop([st |-> res.st, removed |-> acc.removed + res.removed,
                    panicked |-> res.panicked], keep_versions, todo \ {k})

gc(st, keep_versions) ==
    GcLoop([st |-> st, removed |-> 0, panicked |-> FALSE], keep_versions,
           {k \in DOMAIN st.cells : k[1] \in all_pks(st) /\ k[2] \in RowCols(st, k[1])})

\* CrrTable::delete: the hard delete of a row.
delete(st, pk) == delete_row(st, pk)

\* gc.rs: KeepAll removes nothing, KeepLast(n) is gc(n).
KeepAll == None

run_gc(st, policy) ==
    IF policy = KeepAll THEN [st |-> st, removed |-> 0, panicked |-> FALSE]
    ELSE gc(st, policy)

\* ------------------------------------------------------------------- sync.rs
\* Mutant: peer_a's changeset is taken after peer_a has merged changeset_b.
sync_ChangesetAfterMerge(peer_a, peer_b, policy) ==
    LET changeset_b == changeset(peer_b)
        res_a == merge(peer_a, changeset_b, policy)
        changeset_a == changeset(res_a.st)
        res_b == merge(peer_b, changeset_a, policy)
    IN IF res_a.panicked
       THEN [a |-> peer_a, b |-> peer_b, a_to_b |-> EmptyReport,
             b_to_a |-> EmptyReport, panicked |-> TRUE,
             changeset_a |-> changeset_a, changeset_b |-> changeset_b]
       ELSE IF res_b.panicked
       THEN [a |-> res_a.st, b |-> peer_b, a_to_b |-> EmptyReport,
             b_to_a |-> res_a.report, panicked |-> TRUE,
             changeset_a |-> changeset_a, changeset_b |-> changeset_b]
       ELSE [a |-> res_a.st, b |-> res_b.st, a_to_b |-> res_b.report,
             b_to_a |-> res_a.report, panicked |-> FALSE,
             changeset_a |-> changeset_a, changeset_b |-> changeset_b]

\* SyncSession::sync: both changesets are taken first, then peer_a merges
\* changeset_b and peer_b merges changeset_a.  a_to_b is peer_b's report;
\* changeset_a and changeset_b are the two changesets handed to merge.
sync(peer_a, peer_b, policy) ==
    LET changeset_a == changeset(peer_a)
        changeset_b == changeset(peer_b)
        res_a == merge(peer_a, changeset_b, policy)
        res_b == merge(peer_b, changeset_a, policy)
    IN IF res_a.panicked
       THEN [a |-> peer_a, b |-> peer_b, a_to_b |-> EmptyReport,
             b_to_a |-> EmptyReport, panicked |-> TRUE,
             changeset_a |-> changeset_a, changeset_b |-> changeset_b]
       ELSE IF res_b.panicked
       THEN [a |-> res_a.st, b |-> peer_b, a_to_b |-> EmptyReport,
             b_to_a |-> res_a.report, panicked |-> TRUE,
             changeset_a |-> changeset_a, changeset_b |-> changeset_b]
       ELSE [a |-> res_a.st, b |-> res_b.st, a_to_b |-> res_b.report,
             b_to_a |-> res_a.report, panicked |-> FALSE,
             changeset_a |-> changeset_a, changeset_b |-> changeset_b]

result_total_changes(result) == total_changes(result.a_to_b) + total_changes(result.b_to_a)

total_conflicts(result) == result.a_to_b.conflicts + result.b_to_a.conflicts

RoundCap == 100

\* ------------------------------------------------ lib.rs: the legacy modules
\* dag::VersionDag: nodes keyed by version, and the head.  The timestamp of a
\* node is the wall clock and is left out.
EmptyDag == [nodes |-> <<>>, head |-> None]

\* VersionDag::add_node: HashMap::insert by version, head raised if greater.
add_node(dag, version, value, parent_versions) ==
    [nodes |-> [v \in DOMAIN dag.nodes \cup {version} |->
                   IF v = version
                   THEN [version |-> version, parent_versions |-> parent_versions,
                         value |-> value, is_tombstone |-> FALSE]
                   ELSE dag.nodes[v]],
     head |-> IF dag.head = None \/ version > dag.head THEN version ELSE dag.head]

\* crr::LegacyCrrTable::new.  rows is the set of pks that have a CrrRow;
\* cells holds each row's columns and versions, dags each row's dags.
LegacyEmpty ==
    [rows |-> {}, cells |-> [k \in Keys |-> Absent], dags |-> [k \in Keys |-> EmptyDag]]

\* LegacyCrrTable::insert_or_update for one column of the columns map, with
\* the version the versions map gives it.
insert_or_update(t, k, value, version) ==
    LET prev == t.cells[k]
        parents == IF prev.present THEN <<prev.version>> ELSE <<>>
    IN [rows |-> t.rows \cup {k[1]},
        cells |-> [t.cells EXCEPT ![k] = Cell(value, version)],
        dags |-> [t.dags EXCEPT ![k] = add_node(@, version, value, parents)]]

LegacyEmptyReport ==
    [inserted |-> {}, updated |-> {}, skipped_older |-> {}, conflicts_equal_version |-> {}]

\* The body of crr_merge's inner loop for one changeset column.
CrrMergeCell(acc, cs, policy, k) ==
    LET t == acc.t
        val == cs.cols[k]
        v_r == IF k \in DOMAIN cs.vers THEN cs.vers[k] ELSE 0
        v_l == IF t.cells[k].present THEN t.cells[k].version ELSE 0
        row == [t EXCEPT !.rows = @ \cup {k[1]}]
        write(v, parents) ==
            [row EXCEPT !.cells[k] = Cell(val, v),
                        !.dags[k] = add_node(@, v, val, parents)]
    IN IF v_l = 0
       THEN [t |-> write(v_r, <<>>),
             report |-> [acc.report EXCEPT !.inserted = @ \cup {k}]]
       ELSE IF v_r > v_l
       THEN [t |-> write(v_r, <<v_l>>),
             report |-> [acc.report EXCEPT !.updated = @ \cup {<<k, v_r>>}]]
       ELSE IF v_r = v_l
       THEN IF t.cells[k].value # val
            THEN [t |-> CASE policy = "PreferExisting" -> row
                          [] policy = "PreferIncoming" -> write(v_r + 1, <<v_l, v_r>>)
                          [] policy = "LexicographicMin" ->
                               IF LexLess(val, t.cells[k].value)
                               THEN write(v_r + 1, <<v_l, v_r>>) ELSE row,
                  report |-> [acc.report EXCEPT !.conflicts_equal_version =
                                 @ \cup {<<k, v_r, t.cells[k].value, val>>}]]
            ELSE [t |-> row, report |-> acc.report]
       ELSE [t |-> row,
             report |-> [acc.report EXCEPT !.skipped_older = @ \cup {<<k, v_r>>}]]

RECURSIVE CrrMergeLoop(_, _, _, _)
CrrMergeLoop(acc, cs, policy, todo) ==
    IF todo = {} THEN acc
    ELSE LET k == CHOOSE x \in todo : TRUE
         IN CrrMergeLoop(CrrMergeCell(acc, cs, policy, k), cs, policy, todo \ {k})

\* LegacyCrrTable::crr_merge; the result is [t, report].
crr_merge(t, cs, policy) ==
    CrrMergeLoop([t |-> t, report |-> LegacyEmptyReport], cs, policy, CsKeys(cs))

\* sync_protocol::HeadExchange::from_table: the versions of every row.
legacy_from_table(t) ==
    [k \in {x \in Keys : x[1] \in t.rows /\ t.cells[x].present} |-> t.cells[k].version]

\* sync_protocol::Changeset::compute: the sender's columns whose version is
\* strictly greater than the receiver's head (0 where the receiver has none).
compute(sender, receiver_heads) ==
    LET needed == {k \in Keys :
                      /\ k[1] \in sender.rows
                      /\ sender.cells[k].present
                      /\ sender.cells[k].version >
                            (IF k \in DOMAIN receiver_heads THEN receiver_heads[k] ELSE 0)}
    IN [cols |-> [k \in needed |-> sender.cells[k].value],
        vers |-> [k \in needed |-> sender.cells[k].version]]

\* sync_protocol::SyncSession::sync: heads, the two delta changesets, then
\* peer_a merges and peer_b merges.  columns_updated is updated + inserted.
legacy_sync(peer_a, peer_b, policy) ==
    LET heads_a == legacy_from_table(peer_a)
        heads_b == legacy_from_table(peer_b)
        changeset_a_to_b == compute(peer_a, heads_b)
        changeset_b_to_a == compute(peer_b, heads_a)
        res_a == crr_merge(peer_a, changeset_b_to_a, policy)
        res_b == crr_merge(peer_b, changeset_a_to_b, policy)
        columns_updated(report) == Cardinality(report.updated) + Cardinality(report.inserted)
    IN [a |-> res_a.t, b |-> res_b.t,
        result_a |-> [columns_updated |-> columns_updated(res_a.report),
                      conflicts_resolved |-> Cardinality(res_a.report.conflicts_equal_version)],
        result_b |-> [columns_updated |-> columns_updated(res_b.report),
                      conflicts_resolved |-> Cardinality(res_b.report.conflicts_equal_version)]]

\* --------------------------------------------------------------------- state
VARIABLES
    peers,     \* MeshSync.peers / the tables under test: peer -> storage
    free,      \* a second run over the same initial tables: a free schedule of
               \* sessions, the run without gc, the legacy mesh
    mesh,      \* position of MeshSync::sync_all: status, round, i, j, counters
    last,      \* the last operation: its kind, inputs, pre-state and result
    base,      \* the tables as they were in the initial state
    edits,     \* the local updates made since the initial state: <<peer, key>>
    pc,        \* where each peer of a two-order run stands
    inputs     \* the changesets drawn for the run; in the runs of one table,
               \* the <<key, version>> pairs whose nodes gc has removed

vars == <<peers, free, mesh, last, base, edits, pc, inputs>>

NoOp == [op |-> "none"]

\* round_writes adds up inserted + updated of the reports of the current
\* round and zero_rounds counts the completed rounds in which it was 0.
MeshIdle == [status |-> "idle", policy |-> "LexicographicMin", round |-> 0,
             i |-> 1, j |-> 2, round_changes |-> 0, total_changes |-> 0,
             round_writes |-> 0, zero_rounds |-> 0]

\* ------------------------------------------------------------ drawn tables
\* A table built by one insert commit per chosen cell.  assign maps each key
\* to Absent or to the Cell the insert writes.
Assignments(keys) ==
    {f \in [Keys -> {Absent} \cup {Cell(v, n) : v \in Values, n \in 0..MaxVersion}] :
        \A k \in Keys \ keys : ~f[k].present}

RECURSIVE InsertAll(_, _, _)
InsertAll(st, assign, todo) ==
    IF todo = {} THEN st
    ELSE LET k == CHOOSE x \in todo : TRUE
         IN InsertAll(IF assign[k].present
                      THEN InsertColumn(st, k, assign[k].value, assign[k].version)
                      ELSE st, assign, todo \ {k})

TableOf(kind, assign) == InsertAll(EmptyStorage(kind), assign, Keys)

cells_of(ps) == [p \in DOMAIN ps |-> ps[p].cells]

AllAgree(ps) == \A p, q \in DOMAIN ps : ps[p].cells = ps[q].cells

\* ------------------------------------------------- SpecMesh: MeshSync::sync_all
\* Every peer's table comes from local inserts; sync_all runs on peers, and
\* afterwards sessions in any order run on a copy of the same tables.
MeshKeys == {<<"u1", "name">>}

InitMesh ==
    \E f \in [Peers -> Assignments(MeshKeys)] :
        /\ peers = [p \in Peers |-> TableOf("sqlite", f[p])]
        /\ free = [peers |-> [p \in Peers |-> TableOf("sqlite", f[p])], panicked |-> FALSE]
        /\ base = [p \in Peers |-> TableOf("sqlite", f[p])]
        /\ mesh = [MeshIdle EXCEPT !.policy = "LexicographicMin"]
        /\ last = NoOp
        /\ edits = {}
        /\ pc = <<>>
        /\ inputs = <<>>

\* Entry of sync_all: total_changes = 0, first round, first pair.
MeshStart ==
    /\ mesh.status = "idle"
    /\ mesh' = [mesh EXCEPT !.status = IF NumPeers < 2 THEN "done" ELSE "running"]
    /\ UNCHANGED <<peers, free, last, base, edits, pc, inputs>>

\* One pairwise session of the current round; after the last pair of a round
\* the round's changes are added up and the loop breaks on zero changes or
\* when the round cap is reached.
MeshSession ==
    /\ mesh.status = "running"
    /\ LET i == mesh.i
           j == mesh.j
           result == sync(peers[i], peers[j], mesh.policy)
           round_changes == mesh.round_changes + result_total_changes(result)
           round_writes == mesh.round_writes
                             + result.a_to_b.inserted + result.a_to_b.updated
                             + result.b_to_a.inserted + result.b_to_a.updated
           last_pair == (i = NumPeers - 1 /\ j = NumPeers)
       IN IF result.panicked
          THEN /\ mesh' = [mesh EXCEPT !.status = "panicked"]
               /\ peers' = [peers EXCEPT ![i] = result.a, ![j] = result.b]
          ELSE /\ peers' = [peers EXCEPT ![i] = result.a, ![j] = result.b]
               /\ mesh' = IF ~last_pair
                          THEN [mesh EXCEPT !.round_changes = round_changes,
                                            !.round_writes = round_writes,
                                            !.i = IF j < NumPeers THEN i ELSE i + 1,
                                            !.j = IF j < NumPeers THEN j + 1 ELSE i + 2]
                          ELSE IF round_changes = 0 \/ mesh.round + 1 = RoundCap
                          THEN [mesh EXCEPT !.status = "done",
                                            !.round_changes = round_changes,
                                            !.round_writes = round_writes,
                                            !.zero_rounds =
                                                IF round_writes = 0 THEN @ + 1 ELSE @,
                                            !.total_changes = @ + round_changes]
                          ELSE [mesh EXCEPT !.round = @ + 1, !.i = 1, !.j = 2,
                                            !.round_changes = 0,
                                            !.round_writes = 0,
                                            !.zero_rounds =
                                                IF round_writes = 0 THEN @ + 1 ELSE @,
                                            !.total_changes = @ + round_changes]
    /\ UNCHANGED <<free, last, base, edits, pc, inputs>>

\* A session between any two peers of the free schedule.
FreeSession(p, q) ==
    /\ mesh.status \in {"done", "panicked"}
    /\ ~free.panicked
    /\ p # q
    /\ LET result == sync(free.peers[p], free.peers[q], mesh.policy)
       IN free' = [peers |-> [free.peers EXCEPT ![p] = result.a, ![q] = result.b],
                   panicked |-> result.panicked]
    /\ UNCHANGED <<peers, mesh, last, base, edits, pc, inputs>>

NextMesh ==
    \/ MeshStart
    \/ MeshSession
    \/ \E p, q \in Peers : FreeSession(p, q)

SpecMesh == InitMesh /\ [][NextMesh]_vars

\* No session between two peers of ps would change anything.
Quiescent(ps) ==
    \A p, q \in DOMAIN ps : p # q =>
        LET result == sync(ps[p], ps[q], "LexicographicMin")
        IN ~result.panicked /\ result_total_changes(result) = 0

\* C1: sync_all under LexicographicMin, on tables produced by arbitrary local
\* inserts, stops only by returning after a round in which no session changed
\* anything (the round cap is not what ends it), and then every peer holds the
\* same (pk, col, value, version) cells.
C1_MeshConverges ==
    mesh.status \in {"done", "panicked"} =>
        /\ mesh.status = "done"
        /\ mesh.round_changes = 0
        /\ AllAgree(peers)

\* C3 as claimed: two schedules of sessions over the same tables, each run
\* until no session changes anything, end in the same cells on every peer
\* (sync_all's index-order schedule against any other schedule).
C3_ScheduleIndependent ==
    (Quiescent(peers) /\ Quiescent(free.peers)) =>
        cells_of(free.peers) = cells_of(peers)

\* C3 amended: a schedule that has been run until no session changes anything
\* leaves all its peers with the same (value, version) in every cell.
C3_QuiescentPeersAgree ==
    Quiescent(free.peers) => AllAgree(free.peers)

\* Sessions have changed the free schedule's tables and it is now quiescent,
\* in cells other than those sync_all ended with.
C3_Witness ==
    /\ Quiescent(free.peers)
    /\ Quiescent(peers)
    /\ cells_of(free.peers) # cells_of(base)
    /\ cells_of(free.peers) # cells_of(peers)

\* ------------------------------------------------ SpecMerge: CrrTable::merge
\* One table built by local inserts merges one changeset under one policy,
\* and may then merge the same changeset again.
A == 1
B == 2

\* The changesets over a set of keys: any subset of the keys, any value, any
\* version up to MaxVersion, or no version entry for the column.
CsEntries == {[value |-> v, version |-> n] : v \in Values, n \in 0..MaxVersion}
                \cup {[value |-> v, version |-> None] : v \in Values}

MkChangeset(ks, e) ==
    [cols |-> [k \in ks |-> e[k].value],
     vers |-> [k \in {x \in ks : e[x].version # None} |-> e[k].version]]

Changesets(keys) ==
    UNION {{MkChangeset(ks, e) : e \in [ks -> CsEntries]} : ks \in SUBSET keys}

InitMerge ==
    \E f \in Assignments(Keys) :
        /\ peers = [p \in {A} |-> TableOf("sqlite", f)]
        /\ free = [peers |-> <<>>, panicked |-> FALSE]
        /\ base = peers
        /\ mesh = MeshIdle
        /\ last = NoOp
        /\ edits = {}
        /\ pc = <<>>
        /\ inputs = <<>>

\* merge(changeset, policy) on the table; a panic leaves no result.
Merge(cs, policy) ==
    /\ last.op = "none"
    /\ LET res == merge(peers[A], cs, policy)
       IN /\ peers' = [peers EXCEPT ![A] = IF res.panicked THEN @ ELSE res.st]
          /\ last' = [op |-> IF res.panicked THEN "merge_panic" ELSE "merge",
                      pre |-> peers[A], cs |-> cs, policy |-> policy,
                      report |-> res.report]
    /\ UNCHANGED <<free, mesh, base, edits, pc, inputs>>

\* The same merge call once more, right after the first returned.
MergeAgain ==
    /\ last.op = "merge"
    /\ LET res == merge(peers[A], last.cs, last.policy)
       IN /\ peers' = [peers EXCEPT ![A] = IF res.panicked THEN @ ELSE res.st]
          /\ last' = [op |-> IF res.panicked THEN "merge_panic" ELSE "merge_again",
                      pre |-> peers[A], cs |-> last.cs, policy |-> last.policy,
                      report |-> res.report]
    /\ UNCHANGED <<free, mesh, base, edits, pc, inputs>>

NextMerge ==
    \/ /\ last.op = "none"
       /\ \E cs \in Changesets(Keys), policy \in Policies : Merge(cs, policy)
    \/ MergeAgain

SpecMerge == InitMerge /\ [][NextMerge]_vars

\* What a changeset cell meets locally, from the state before the merge.
VersionOf(cell) == IF cell.present THEN cell.version ELSE 0

Max(a, b) == IF a >= b THEN a ELSE b

\* v_l = v_r with a local value that differs from the remote one.
IsTie(pre, cs, k) ==
    /\ pre.cells[k].present
    /\ pre.cells[k].version = RemoteVersion(cs, k)
    /\ pre.cells[k].value # cs.cols[k]

\* The policy takes the remote value of a tie.
PolicyAccepts(policy, local_value, remote_value) ==
    \/ policy = "PreferIncoming"
    \/ policy = "LexicographicMin" /\ LexLess(remote_value, local_value)

\* C4: merging the same changeset a second time leaves every cell (value and
\* version) as the first merge left it, and the second merge reports
\* inserted = 0 and updated = 0, for every table, changeset and policy.
C4_MergeIdempotent ==
    last.op = "merge_again" =>
        /\ peers[A].cells = last.pre.cells
        /\ last.report.inserted = 0
        /\ last.report.updated = 0

\* The second merge of a changeset whose first merge wrote a cell.
C4_Witness ==
    /\ last.op = "merge_again"
    /\ peers[A].cells # base[A].cells
    /\ last.report.skipped > 0

\* C6: for every changeset cell the stored version after merge is
\* max(v_l, v_r), or v_r + 1 when v_l = v_r, the values differ and the policy
\* accepts the remote value; the stored version is never lower than before.
C6_MergeMonotone ==
    last.op = "merge" =>
        \A k \in CsKeys(last.cs) :
            LET v_l == VersionOf(last.pre.cells[k])
                v_r == RemoteVersion(last.cs, k)
                won == /\ IsTie(last.pre, last.cs, k)
                       /\ PolicyAccepts(last.policy, last.pre.cells[k].value, last.cs.cols[k])
            IN /\ VersionOf(peers[A].cells[k]) = IF won THEN v_r + 1 ELSE Max(v_l, v_r)
               /\ VersionOf(peers[A].cells[k]) >= v_l

\* A merge in which one cell won a tiebreak and another was a newer remote.
C6_Witness ==
    /\ last.op = "merge"
    /\ \E k \in CsKeys(last.cs) :
          /\ IsTie(last.pre, last.cs, k)
          /\ peers[A].cells[k].version = RemoteVersion(last.cs, k) + 1
    /\ \E k \in CsKeys(last.cs) :
          /\ VersionOf(last.pre.cells[k]) < RemoteVersion(last.cs, k)
          /\ peers[A].cells[k].version = RemoteVersion(last.cs, k)

\* The changeset cells of each row of the resolution table.
AbsentCells(pre, cs) == {k \in CsKeys(cs) : ~pre.cells[k].present}

NewerCells(pre, cs) ==
    {k \in CsKeys(cs) : pre.cells[k].present /\ 0 < pre.cells[k].version
                        /\ pre.cells[k].version < RemoteVersion(cs, k)}

OlderCells(pre, cs) ==
    {k \in CsKeys(cs) : pre.cells[k].present /\ pre.cells[k].version > RemoteVersion(cs, k)}

SameCells(pre, cs) ==
    {k \in CsKeys(cs) : pre.cells[k].present /\ pre.cells[k].version = RemoteVersion(cs, k)
                        /\ pre.cells[k].value = cs.cols[k]}

TieCells(pre, cs) == {k \in CsKeys(cs) : IsTie(pre, cs, k)}

\* C7: for each changeset cell merge (a) writes (v_r, remote value) and counts
\* inserted when the local cell is absent, whatever the remote version;
\* (b) writes (v_r, remote value) and counts updated when 0 < v_l < v_r;
\* (c) changes nothing and counts skipped when v_l > v_r; (d) changes nothing,
\* counts skipped and counts no conflict when v_l = v_r with equal values.
C7_ResolutionTable ==
    last.op \in {"merge", "merge_panic"} =>
        LET pre == last.pre
            cs == last.cs
            covered == AbsentCells(pre, cs) \cup NewerCells(pre, cs)
                          \cup OlderCells(pre, cs) \cup SameCells(pre, cs)
        IN /\ last.op = "merge"
           /\ \A k \in AbsentCells(pre, cs) \cup NewerCells(pre, cs) :
                 peers[A].cells[k] = Cell(cs.cols[k], RemoteVersion(cs, k))
           /\ \A k \in OlderCells(pre, cs) \cup SameCells(pre, cs) :
                 peers[A].cells[k] = pre.cells[k]
           /\ last.report.inserted >= Cardinality(AbsentCells(pre, cs))
           /\ last.report.updated >= Cardinality(NewerCells(pre, cs))
           /\ last.report.skipped =
                 Cardinality(OlderCells(pre, cs)) + Cardinality(SameCells(pre, cs))
           /\ covered = CsKeys(cs) =>
                 /\ last.report.inserted = Cardinality(AbsentCells(pre, cs))
                 /\ last.report.updated = Cardinality(NewerCells(pre, cs))
                 /\ last.report.conflicts = 0

\* C8: a changeset cell with v_l = v_r and a different value counts one
\* conflict; PreferExisting then writes nothing, PreferIncoming stores the
\* remote value at v_r + 1 and counts updated, LexicographicMin does so if and
\* only if the remote value is byte-lexicographically smaller than the local
\* one and otherwise writes nothing.
C8_TiebreakPolicies ==
    last.op = "merge" =>
        LET pre == last.pre
            cs == last.cs
            taken == {k \in TieCells(pre, cs) :
                        \/ last.policy = "PreferIncoming"
                        \/ /\ last.policy = "LexicographicMin"
                           /\ LexLess(cs.cols[k], pre.cells[k].value)}
        IN /\ last.report.conflicts = Cardinality(TieCells(pre, cs))
           /\ \A k \in taken :
                 peers[A].cells[k] = Cell(cs.cols[k], RemoteVersion(cs, k) + 1)
           /\ \A k \in TieCells(pre, cs) \ taken : peers[A].cells[k] = pre.cells[k]
           /\ last.report.updated =
                 Cardinality(taken) + Cardinality({k \in CsKeys(cs) :
                     0 < VersionOf(pre.cells[k])
                     /\ VersionOf(pre.cells[k]) < RemoteVersion(cs, k)})

\* A LexicographicMin merge with one tie taken (remote smaller) and one tie
\* kept (remote larger).
C8_Witness ==
    /\ last.op = "merge"
    /\ last.policy = "LexicographicMin"
    /\ \E k1, k2 \in TieCells(last.pre, last.cs) :
          /\ LexLess(last.cs.cols[k1], last.pre.cells[k1].value)
          /\ peers[A].cells[k1].version = RemoteVersion(last.cs, k1) + 1
          /\ LexLess(last.pre.cells[k2].value, last.cs.cols[k2])
          /\ peers[A].cells[k2] = last.pre.cells[k2]

\* C11: when every storage operation succeeds, merge returns a MergeReport
\* for every table, every changeset (cells at version 0 and cells absent
\* locally included) and every policy; it never aborts, and every changeset
\* cell is counted as inserted, updated or skipped, or as a conflict.
C11_MergeAlwaysReturns ==
    last.op \in {"merge", "merge_panic"} =>
        /\ last.op = "merge"
        /\ last.report.inserted + last.report.updated + last.report.skipped
              + last.report.conflicts >= Cardinality(CsKeys(last.cs))


\* The changeset cells that merge reports as skipped (an older remote, or an
\* equal version with the same value) or as a conflict it did not accept.
NotTaken(pre, cs, policy) ==
    {k \in CsKeys(cs) :
        /\ pre.cells[k].present
        /\ \/ RemoteVersion(cs, k) < pre.cells[k].version
           \/ /\ RemoteVersion(cs, k) = pre.cells[k].version
              /\ \/ pre.cells[k].value = cs.cols[k]
                 \/ ~PolicyAccepts(policy, pre.cells[k].value, cs.cols[k])}

\* The cells whose stored (value, version) differs from before the merge.
ChangedCells(pre, post) == {k \in Keys : post.cells[k] # pre.cells[k]}

\* C36: for every merge that returns, total_changes() (inserted + updated) is
\* the number of cells whose stored (value, version) differs from before,
\* every changed cell ends with a strictly greater version than before, and
\* total_changes() = 0 exactly when no cell changed.
C36_ReportCountsChanges ==
    last.op \in {"merge", "merge_again"} =>
        LET changed == ChangedCells(last.pre, peers[A])
        IN /\ total_changes(last.report) = Cardinality(changed)
           /\ \A k \in changed :
                 VersionOf(peers[A].cells[k]) > VersionOf(last.pre.cells[k])
           /\ (total_changes(last.report) = 0) <=> (peers[A].cells = last.pre.cells)

\* A merge that inserted one cell, updated another by a tiebreak, and so
\* reports two changes.
C36_Witness ==
    /\ last.op = "merge"
    /\ last.report.inserted = 1
    /\ last.report.updated = 1
    /\ last.report.conflicts = 1
    /\ Cardinality(ChangedCells(last.pre, peers[A])) = 2

\* C39: a merge that returns leaves the cell and the DAG history of every
\* key outside the changeset, and of every key it skipped or whose conflict
\* it did not accept, as they were.
C39_MergeFrame ==
    last.op \in {"merge", "merge_again"} =>
        \A k \in (Keys \ CsKeys(last.cs)) \cup NotTaken(last.pre, last.cs, last.policy) :
            /\ peers[A].cells[k] = last.pre.cells[k]
            /\ peers[A].dag[k] = last.pre.dag[k]

\* A merge that wrote one cell and left a refused conflict, with its
\* history, alone.
C39_Witness ==
    /\ last.op = "merge"
    /\ ChangedCells(last.pre, peers[A]) # {}
    /\ \E k \in NotTaken(last.pre, last.cs, last.policy) :
           /\ IsTie(last.pre, last.cs, k)
           /\ Len(peers[A].dag[k]) > 0

\* ---------------------------------------------- SpecSync: SyncSession::sync
\* Two peers, each with a table built by local inserts, run one session and
\* then repeat it, up to MaxSessions sessions in all.
MaxSessions == 3

InitSync ==
    \E f \in [{A, B} -> Assignments(Keys)] :
        /\ peers = [p \in {A, B} |-> TableOf("sqlite", f[p])]
        /\ free = [peers |-> <<>>, panicked |-> FALSE]
        /\ base = peers
        /\ mesh = MeshIdle
        /\ last = NoOp
        /\ edits = {}
        /\ pc = <<>>
        /\ inputs = <<>>

\* SyncSession::new(policy).sync(peer_a, peer_b); a panic leaves no result.
Session(policy) ==
    /\ last.op = "none"
    /\ LET result == sync(peers[A], peers[B], policy)
       IN /\ peers' = [peers EXCEPT ![A] = result.a, ![B] = result.b]
          /\ last' = [op |-> IF result.panicked THEN "sync_panic" ELSE "sync",
                      pre |-> peers, policy |-> policy,
                      a_to_b |-> result.a_to_b, b_to_a |-> result.b_to_a,
                      sent_a |-> result.changeset_a, sent_b |-> result.changeset_b]
    /\ UNCHANGED <<free, mesh, base, edits, pc, inputs>>

\* The same session once more, right after the previous one returned; n is
\* the number of sessions run so far.
SessionAgain ==
    /\ last.op \in {"sync", "sync_again"}
    /\ last.op = "sync_again" => last.n < MaxSessions
    /\ LET result == sync(peers[A], peers[B], last.policy)
       IN /\ peers' = [peers EXCEPT ![A] = result.a, ![B] = result.b]
          /\ last' = [op |-> IF result.panicked THEN "sync_panic" ELSE "sync_again",
                      pre |-> peers, policy |-> last.policy,
                      a_to_b |-> result.a_to_b, b_to_a |-> result.b_to_a,
                      sent_a |-> result.changeset_a, sent_b |-> result.changeset_b,
                      n |-> IF last.op = "sync" THEN 2 ELSE last.n + 1]
    /\ UNCHANGED <<free, mesh, base, edits, pc, inputs>>

NextSync ==
    \/ \E policy \in Policies : Session(policy)
    \/ SessionAgain

SpecSync == InitSync /\ [][NextSync]_vars

\* Both peers held k at the same version with different values.
TiedBefore(k) ==
    /\ last.pre[A].cells[k].present
    /\ last.pre[B].cells[k].present
    /\ last.pre[A].cells[k].version = last.pre[B].cells[k].version
    /\ last.pre[A].cells[k].value # last.pre[B].cells[k].value

MinValue(x, y) == IF LexLess(x, y) THEN x ELSE y

\* C2 as claimed: after one LexicographicMin session both peers hold the
\* smaller value of a tied cell at version v + 1, and a conflict is reported.
C2_TieResolvedOnBothPeers ==
    (last.op = "sync" /\ last.policy = "LexicographicMin") =>
        \A k \in Keys : TiedBefore(k) =>
            LET v == last.pre[A].cells[k].version
                small == MinValue(last.pre[A].cells[k].value, last.pre[B].cells[k].value)
            IN /\ peers[A].cells[k] = Cell(small, v + 1)
               /\ peers[B].cells[k] = Cell(small, v + 1)
               /\ last.a_to_b.conflicts + last.b_to_a.conflicts >= 1

\* C2 amended: after one LexicographicMin session both peers hold the smaller
\* value of a tied cell; the peer that held the larger value holds it at
\* version v + 1, the peer that already held it still holds it at version v;
\* a conflict is reported.
C2_TieResolvedLoserBumps ==
    (last.op = "sync" /\ last.policy = "LexicographicMin") =>
        \A k \in Keys : TiedBefore(k) =>
            LET v == last.pre[A].cells[k].version
                small == MinValue(last.pre[A].cells[k].value, last.pre[B].cells[k].value)
                winner == IF last.pre[A].cells[k].value = small THEN A ELSE B
                loser == IF winner = A THEN B ELSE A
            IN /\ peers[winner].cells[k] = Cell(small, v)
               /\ peers[loser].cells[k] = Cell(small, v + 1)
               /\ last.a_to_b.conflicts + last.b_to_a.conflicts >= 1

\* A LexicographicMin session that returned, over a cell tied at version >= 1.
C2_Witness ==
    /\ last.op = "sync"
    /\ last.policy = "LexicographicMin"
    /\ \E k \in Keys : TiedBefore(k) /\ last.pre[A].cells[k].version >= 1
                       /\ peers[A].cells[k].value = peers[B].cells[k].value

\* The cells the two peers held at the same version with different values
\* before the first session.
TiedAtStart ==
    {k \in Keys : /\ base[A].cells[k].present /\ base[B].cells[k].present
                  /\ base[A].cells[k].version = base[B].cells[k].version
                  /\ base[A].cells[k].value # base[B].cells[k].value}

\* C22 as claimed: the session that immediately follows a LexicographicMin
\* session reports zero changes (inserted + updated = 0 in both directions)
\* and the two peers hold identical cells.
C22_RepeatedSessionNoOp ==
    (last.op = "sync_again" /\ last.n = 2 /\ last.policy = "LexicographicMin") =>
        /\ total_changes(last.a_to_b) + total_changes(last.b_to_a) = 0
        /\ peers[A].cells = peers[B].cells

\* C22 amended: the second LexicographicMin session reports exactly one
\* change for every cell that was tied before the first session (so zero
\* changes when no cell was tied), after it the two peers hold identical
\* cells, and the session after that reports zero changes and leaves the
\* cells as they are.
C22_RepeatCatchesUpTies ==
    (last.op = "sync_again" /\ last.policy = "LexicographicMin") =>
        /\ peers[A].cells = peers[B].cells
        /\ last.n = 2 =>
              total_changes(last.a_to_b) + total_changes(last.b_to_a)
                  = Cardinality(TiedAtStart)
        /\ last.n >= 3 =>
              /\ total_changes(last.a_to_b) + total_changes(last.b_to_a) = 0
              /\ cells_of(peers) = cells_of(last.pre)

\* A third LexicographicMin session over peers that started with a tied cell
\* and with a cell only one of them held.
C22_Witness ==
    /\ last.op = "sync_again"
    /\ last.n = 3
    /\ last.policy = "LexicographicMin"
    /\ TiedAtStart # {}
    /\ \E k \in Keys : base[A].cells[k].present /\ ~base[B].cells[k].present

\* HeadExchange::from_table: the version of every cell a table holds.
from_table(st) == [k \in CellKeys(st) |-> st.cells[k].version]

\* The cells of sender whose version strictly exceeds the version the
\* receiver's head view advertises, and the sender's cells the view lacks.
DeltaKeys(sender, heads) ==
    {k \in CellKeys(sender) : k \notin DOMAIN heads \/ sender.cells[k].version > heads[k]}

\* Every cell of st with its value and version, read off the cells.
FullChangeset(st) ==
    [cols |-> [k \in CellKeys(st) |-> st.cells[k].value],
     vers |-> [k \in CellKeys(st) |-> st.cells[k].version]]

TieAccepted(k) ==
    /\ TiedBefore(k)
    /\ \E p \in {A, B} : peers[p].cells[k] # last.pre[p].cells[k]

\* The two peers hold k at equal versions with different values.
TiedNow(k) ==
    /\ peers[A].cells[k].present /\ peers[B].cells[k].present
    /\ peers[A].cells[k].version = peers[B].cells[k].version
    /\ peers[A].cells[k].value # peers[B].cells[k].value

\* C28 as claimed: after a session in which a merge accepted a conflicting
\* remote value for a cell (under PreferIncoming or LexicographicMin), the
\* two peers do not hold that cell at equal versions with different values.
C28_BumpEliminatesTies ==
    last.op \in {"sync", "sync_again"} =>
        \A k \in Keys : TieAccepted(k) => ~TiedNow(k)

\* C28 amended: that holds under LexicographicMin, where only the peer with
\* the greater value accepts; under PreferIncoming both peers accept, so
\* after the session each holds the other's value at version v + 1 and the
\* cell is tied again.
C28_BumpEliminatesTiesLexMin ==
    last.op \in {"sync", "sync_again"} =>
        \A k \in Keys : TieAccepted(k) =>
            LET v == last.pre[A].cells[k].version
            IN /\ last.policy = "LexicographicMin" => ~TiedNow(k)
               /\ last.policy = "PreferIncoming" =>
                     /\ peers[A].cells[k] = Cell(last.pre[B].cells[k].value, v + 1)
                     /\ peers[B].cells[k] = Cell(last.pre[A].cells[k].value, v + 1)
                     /\ TiedNow(k)

\* A LexicographicMin session in which A accepted B's smaller value for one
\* cell while the other cell was not tied.
C28_Witness ==
    /\ last.op = "sync"
    /\ last.policy = "LexicographicMin"
    /\ \E k \in Keys :
          /\ TieAccepted(k)
          /\ peers[A].cells[k] = Cell(last.pre[B].cells[k].value,
                                      last.pre[B].cells[k].version + 1)
          /\ \E x \in Keys \ {k} : ~TiedBefore(x) /\ last.pre[A].cells[x].present


\* C37: a session that returns leaves each peer as the merge of its own
\* state before the session with the changeset of the other's state before
\* the session, and the session with the peers swapped, from the same
\* states, leaves A with the same cells and B with the same cells, under
\* every policy; the swapped session fails exactly when the session fails.
C37_SessionSymmetric ==
    last.op \in {"sync", "sync_again", "sync_panic"} =>
        LET swapped == sync(last.pre[B], last.pre[A], last.policy)
        IN /\ swapped.panicked <=> (last.op = "sync_panic")
           /\ last.op # "sync_panic" =>
                 /\ peers[A].cells = swapped.b.cells
                 /\ peers[B].cells = swapped.a.cells
                 /\ peers[A].cells =
                        merge(last.pre[A], changeset(last.pre[B]), last.policy).st.cells
                 /\ peers[B].cells =
                        merge(last.pre[B], changeset(last.pre[A]), last.policy).st.cells

\* A session in which each peer took the other's value of a tied cell, so
\* that a changeset taken after the first merge would have read differently.
C37_Witness ==
    /\ last.op = "sync"
    /\ \E k \in TiedAtStart :
          /\ peers[A].cells[k].value = last.pre[B].cells[k].value
          /\ peers[B].cells[k].value = last.pre[A].cells[k].value

\* ------------------------------------- SpecDisjoint: edits of one common row
\* Both peers start from the same table; each commits at most one update of
\* one column, then one session runs.
InitDisjoint ==
    \E f \in Assignments(Keys) :
        /\ peers = [p \in {A, B} |-> TableOf("sqlite", f)]
        /\ free = [peers |-> <<>>, panicked |-> FALSE]
        /\ base = peers
        /\ mesh = MeshIdle
        /\ last = NoOp
        /\ edits = {}
        /\ pc = <<>>
        /\ inputs = <<>>

\* update(pk).column(col, value).commit() on peer p.
Update(p, k, value) ==
    /\ last.op = "none"
    /\ \A e \in edits : e[1] # p
    /\ peers' = [peers EXCEPT ![p] = UpdateColumn(@, k, value)]
    /\ edits' = edits \cup {<<p, k>>}
    /\ UNCHANGED <<free, mesh, last, base, pc, inputs>>

NextDisjoint ==
    \/ \E p \in {A, B}, k \in Keys, value \in Values : Update(p, k, value)
    \/ \E policy \in Policies : Session(policy)

SpecDisjoint == InitDisjoint /\ [][NextDisjoint]_vars

\* A updated column ka and B updated another column kb of the same row.
DisjointEdits(ka, kb) ==
    /\ edits = {<<A, ka>>, <<B, kb>>}
    /\ ka[1] = kb[1]
    /\ ka[2] # kb[2]

\* C9: when two peers start from the same row and each updates a different
\* column of it, one session under any policy returns with conflicts = 0 in
\* both directions and both peers hold both edits at their written versions.
C9_DisjointColumnsNoConflict ==
    \A ka, kb \in Keys :
        (DisjointEdits(ka, kb) /\ last.op # "none") =>
            /\ last.op = "sync"
            /\ last.a_to_b.conflicts = 0
            /\ last.b_to_a.conflicts = 0
            /\ last.pre[A].cells[ka].version = VersionOf(base[A].cells[ka]) + 1
            /\ last.pre[B].cells[kb].version = VersionOf(base[B].cells[kb]) + 1
            /\ \A p \in {A, B} :
                  /\ peers[p].cells[ka] = last.pre[A].cells[ka]
                  /\ peers[p].cells[kb] = last.pre[B].cells[kb]

\* A session after disjoint updates of a row both of whose columns existed,
\* with values that differ from the common ones.
C9_Witness ==
    /\ last.op = "sync"
    /\ \E ka, kb \in Keys :
          /\ DisjointEdits(ka, kb)
          /\ base[A].cells[ka].present /\ base[A].cells[kb].present
          /\ base[A].cells[ka].version >= 1
          /\ last.pre[A].cells[ka].value # base[A].cells[ka].value
          /\ last.pre[B].cells[kb].value # base[B].cells[kb].value
          /\ last.a_to_b.updated = 1 /\ last.b_to_a.updated = 1

\* --------------------------------- SpecCommute: two changesets in both orders
\* Two copies of one table; copy A merges cs1 then cs2, copy B merges cs2
\* then cs1, both under LexicographicMin.  The changesets share no (pk, col).
DisjointPairs ==
    {pair \in Changesets(Keys) \X Changesets(Keys) :
        CsKeys(pair[1]) \cap CsKeys(pair[2]) = {}}

InitCommute ==
    \E f \in Assignments(Keys), pair \in DisjointPairs :
        /\ peers = [p \in {A, B} |-> TableOf("sqlite", f)]
        /\ free = [peers |-> <<>>, panicked |-> FALSE]
        /\ base = peers
        /\ mesh = MeshIdle
        /\ last = NoOp
        /\ edits = {}
        /\ pc = [p \in {A, B} |-> "first"]
        /\ inputs = [cs1 |-> pair[1], cs2 |-> pair[2]]

FirstOf(p) == IF p = A THEN inputs.cs1 ELSE inputs.cs2

SecondOf(p) == IF p = A THEN inputs.cs2 ELSE inputs.cs1

\* Copy p merges the first changeset of its order.
MergeFirst(p) ==
    /\ pc[p] = "first"
    /\ LET res == merge(peers[p], FirstOf(p), "LexicographicMin")
       IN /\ peers' = [peers EXCEPT ![p] = IF res.panicked THEN @ ELSE res.st]
          /\ pc' = [pc EXCEPT ![p] = IF res.panicked THEN "panicked" ELSE "second"]
    /\ UNCHANGED <<free, mesh, last, base, edits, inputs>>

\* Copy p merges the second changeset of its order.
MergeSecond(p) ==
    /\ pc[p] = "second"
    /\ LET res == merge(peers[p], SecondOf(p), "LexicographicMin")
       IN /\ peers' = [peers EXCEPT ![p] = IF res.panicked THEN @ ELSE res.st]
          /\ pc' = [pc EXCEPT ![p] = IF res.panicked THEN "panicked" ELSE "done"]
    /\ UNCHANGED <<free, mesh, last, base, edits, inputs>>

NextCommute == \E p \in {A, B} : MergeFirst(p) \/ MergeSecond(p)

SpecCommute == InitCommute /\ [][NextCommute]_vars

\* C5: merging two changesets that share no (pk, col) under LexicographicMin
\* gives the same (pk, col, value, version) cells in either order.
C5_DisjointMergesCommute ==
    (pc[A] = "done" /\ pc[B] = "done") => peers[A].cells = peers[B].cells

\* Both orders are done, each changeset wrote a cell, one of them by a tiebreak.
C5_Witness ==
    /\ pc[A] = "done" /\ pc[B] = "done"
    /\ \E k1 \in CsKeys(inputs.cs1), k2 \in CsKeys(inputs.cs2) :
          /\ peers[A].cells[k1] # base[A].cells[k1]
          /\ peers[A].cells[k2] # base[A].cells[k2]
          /\ IsTie(base[A], inputs.cs1, k1)

\* ------------------------------ SpecMergeFail: a storage error during merge
\* merge propagates the first storage error with `?`: the cells in done have
\* been processed, then the call named by point fails (for a cell call, on
\* one further cell) and merge returns the error.  No statement of merge
\* runs after the failing call.
InitMergeFail == InitMerge

MergeFails(cs, policy, done, point) ==
    /\ last.op = "none"
    /\ done \subseteq CsKeys(cs)
    /\ LET acc == MergeLoop([st |-> begin_transaction(peers[A]), report |-> EmptyReport,
                             panicked |-> FALSE], cs, policy, done)
       IN /\ ~acc.panicked
          /\ \/ /\ point = "begin_transaction"
                /\ done = {}
                /\ ~peers[A].in_transaction
                /\ peers' = peers
             \/ /\ point = "commit_transaction"
                /\ done = CsKeys(cs)
                /\ peers' = [peers EXCEPT ![A] = acc.st]
             \/ \E k \in CsKeys(cs) \ done :
                   LET full == MergeCell(acc, cs, policy, k)
                       writes == ~full.panicked /\ full.st # acc.st
                   IN \/ /\ point = "get_cell"
                         /\ peers' = [peers EXCEPT ![A] = acc.st]
                      \/ /\ point = "set_cell"
                         /\ writes
                         /\ peers' = [peers EXCEPT ![A] = acc.st]
                      \/ /\ point = "append_dag_node"
                         /\ writes
                         /\ peers' = [peers EXCEPT
                                        ![A] = [full.st EXCEPT !.dag[k] = acc.st.dag[k]]]
    /\ last' = [op |-> "merge_failed", pre |-> peers[A], cs |-> cs, policy |-> policy,
                point |-> point]
    /\ UNCHANGED <<free, mesh, base, edits, pc, inputs>>

FailPoints ==
    {"begin_transaction", "get_cell", "set_cell", "append_dag_node", "commit_transaction"}

NextMergeFail ==
    /\ last.op = "none"
    /\ \E cs \in Changesets(Keys), policy \in Policies, done \in SUBSET Keys,
          point \in FailPoints :
            MergeFails(cs, policy, done, point)

SpecMergeFail == InitMergeFail /\ [][NextMergeFail]_vars

\* C10: when a storage operation fails part-way through merge, the
\* transaction is rolled back: every cell and every DAG node is as before the
\* merge, and no transaction is left open, so that a later merge begins its own.
C10_MergeAtomic ==
    last.op = "merge_failed" =>
        /\ peers[A].cells = last.pre.cells
        /\ peers[A].dag = last.pre.dag
        /\ ~peers[A].in_transaction

\* ----------------------------- SpecTable: local operations on one CrrTable
\* A table on either storage, empty after construction, takes up to MaxOps
\* operations: insert commits, update commits, merges of one-cell
\* changesets, hard deletes and gc(keep_n) with keep_n >= 1.  pc counts the
\* operations made.
MaxOps == 3            \* operations of one run
MaxKeep == 2           \* greatest keep_n passed to gc

Kinds == {"sqlite", "memory"}
TableValues == {<<97>>, <<98>>}

InitTable ==
    \E kind \in Kinds :
        /\ peers = [p \in {A} |-> EmptyStorage(kind)]
        /\ free = [peers |-> <<>>, panicked |-> FALSE]
        /\ base = peers
        /\ mesh = MeshIdle
        /\ last = NoOp
        /\ edits = {}
        /\ pc = 0
        /\ inputs = {}

\* The run goes on: the cap is not reached and no call has aborted it.
TableRuns == pc < MaxOps /\ last.op \notin {"merge_panic", "gc_panic"}

\* insert(pk).column(col, value, version).commit()
TableInsert(k, value, version) ==
    /\ TableRuns
    /\ peers' = [peers EXCEPT ![A] = InsertColumn(@, k, value, version)]
    /\ last' = [op |-> "insert", pre |-> peers[A], k |-> k, value |-> value,
                version |-> version]
    /\ pc' = pc + 1
    /\ UNCHANGED <<free, mesh, base, edits, inputs>>

\* update(pk).column(col, value).commit()
TableUpdate(k, value) ==
    /\ TableRuns
    /\ peers' = [peers EXCEPT ![A] = UpdateColumn(@, k, value)]
    /\ last' = [op |-> "update", pre |-> peers[A], k |-> k, value |-> value]
    /\ pc' = pc + 1
    /\ UNCHANGED <<free, mesh, base, edits, inputs>>

\* merge(changeset, policy) of a changeset that carries the one cell k.
TableMerge(k, value, version, policy) ==
    /\ TableRuns
    /\ LET cs == [cols |-> [x \in {k} |-> value], vers |-> [x \in {k} |-> version]]
           res == merge(peers[A], cs, policy)
       IN /\ peers' = [peers EXCEPT ![A] = IF res.panicked THEN @ ELSE res.st]
          /\ last' = [op |-> IF res.panicked THEN "merge_panic" ELSE "merge",
                      pre |-> peers[A], cs |-> cs, policy |-> policy,
                      report |-> res.report]
    /\ pc' = pc + 1
    /\ UNCHANGED <<free, mesh, base, edits, inputs>>

\* delete(pk)
TableDelete(pk) ==
    /\ TableRuns
    /\ peers' = [peers EXCEPT ![A] = delete(@, pk)]
    /\ last' = [op |-> "delete", pre |-> peers[A], pk |-> pk]
    /\ pc' = pc + 1
    /\ UNCHANGED <<free, mesh, base, edits, inputs>>

\* The <<key, version>> pairs that have a node in pre and none in post.
GcRemoved(pre, post) ==
    UNION {{<<k, pre.dag[k][i].version>> : i \in 1..Len(pre.dag[k])} : k \in DOMAIN pre.dag}
      \ UNION {{<<k, post.dag[k][i].version>> : i \in 1..Len(post.dag[k])} : k \in DOMAIN post.dag}

\* gc(keep_n)
TableGc(keep_n) ==
    /\ TableRuns
    /\ LET res == gc(peers[A], keep_n)
       IN /\ peers' = [peers EXCEPT ![A] = IF res.panicked THEN @ ELSE res.st]
          /\ last' = [op |-> IF res.panicked THEN "gc_panic" ELSE "gc",
                      pre |-> peers[A], keep_n |-> keep_n, removed |-> res.removed]
          /\ inputs' = IF res.panicked THEN inputs
                       ELSE inputs \cup GcRemoved(peers[A], res.st)
    /\ pc' = pc + 1
    /\ UNCHANGED <<free, mesh, base, edits>>

\* The same gc(keep_n) once more, right after the first returned.
TableGcAgain ==
    /\ last.op = "gc"
    /\ LET res == gc(peers[A], last.keep_n)
       IN /\ peers' = [peers EXCEPT ![A] = IF res.panicked THEN @ ELSE res.st]
          /\ last' = [op |-> IF res.panicked THEN "gc_panic" ELSE "gc_again",
                      pre |-> peers[A], keep_n |-> last.keep_n, removed |-> res.removed]
          /\ inputs' = IF res.panicked THEN inputs
                       ELSE inputs \cup GcRemoved(peers[A], res.st)
    /\ UNCHANGED <<free, mesh, base, edits, pc>>

NextTable ==
    \/ \E k \in Keys, value \in TableValues, version \in 0..MaxVersion :
          TableInsert(k, value, version)
    \/ \E k \in Keys, value \in TableValues : TableUpdate(k, value)
    \/ \E k \in Keys, value \in TableValues, version \in 0..MaxVersion,
          policy \in Policies : TableMerge(k, value, version, policy)
    \/ \E pk \in PKs : TableDelete(pk)
    \/ \E keep_n \in 1..MaxKeep : TableGc(keep_n)
    \/ TableGcAgain

SpecTable == InitTable /\ [][NextTable]_vars

\* The DAG nodes of a column, and the greatest version among them.
NodeVersions(st, k) == {st.dag[k][i].version : i \in 1..Len(st.dag[k])}

NodesAt(st, k, version) ==
    {i \in 1..Len(st.dag[k]) : st.dag[k][i].version = version}

\* C12: after any sequence of insert, update, merge, delete and gc(keep_n >= 1)
\* every stored cell (pk, col) at version V has a DAG node with version V in
\* that column's history.
C12_CellBackedByNode ==
    \A k \in Keys :
        peers[A].cells[k].present => peers[A].cells[k].version \in NodeVersions(peers[A], k)

\* C13: in every state reachable by insert, update, merge and gc, the version
\* of every stored cell is the greatest version among the column's DAG nodes
\* and the cell's value is the value of the node with that version.
C13_HeadIsGreatest ==
    \A k \in Keys :
        peers[A].cells[k].present =>
            /\ \A n \in NodeVersions(peers[A], k) : n <= peers[A].cells[k].version
            /\ \A i \in NodesAt(peers[A], k, peers[A].cells[k].version) :
                  peers[A].dag[k][i].value = peers[A].cells[k].value

\* C14: an update commit stores version current + 1 for the column (1 if the
\* cell was absent) with the written value, so each of a sequence of update
\* commits to one (pk, col) raises the stored version by exactly 1.
C14_UpdateBumpsByOne ==
    last.op = "update" =>
        LET before == last.pre.cells[last.k]
        IN /\ peers[A].cells[last.k] =
                 Cell(last.value, IF before.present THEN before.version + 1 ELSE 1)
           /\ \A k \in Keys \ {last.k} : peers[A].cells[k] = last.pre.cells[k]

\* The third of three operations is an update of a cell that already stood
\* at a version of 2 or more.
C14_Witness ==
    /\ last.op = "update"
    /\ pc = MaxOps
    /\ last.pre.cells[last.k].present
    /\ last.pre.cells[last.k].version >= 2
    /\ peers[A].cells[last.k].version = last.pre.cells[last.k].version + 1

\* C15: an insert commit stores, for the written column, the version that
\* follows the stored one (1 if the cell is absent), as update does; it never
\* leaves the column at a version lower than or equal to the one stored before.
C15_InsertUsesNextVersion ==
    last.op = "insert" =>
        LET before == last.pre.cells[last.k]
        IN /\ peers[A].cells[last.k].version =
                 IF before.present THEN before.version + 1 ELSE 1
           /\ before.present => peers[A].cells[last.k].version > before.version

\* C16: gc(keep_n) with keep_n >= 1 leaves the value and the version of every
\* cell unchanged and does not remove the DAG node whose version is the
\* current cell's version.
C16_GcPreservesHead ==
    last.op \in {"gc", "gc_again"} =>
        /\ peers[A].cells = last.pre.cells
        /\ \A k \in Keys :
              (/\ last.pre.cells[k].present
               /\ last.pre.cells[k].version \in NodeVersions(last.pre, k))
                  => last.pre.cells[k].version \in NodeVersions(peers[A], k)

RECURSIVE NodeCount(_, _)
NodeCount(st, ks) ==
    IF ks = {} THEN 0
    ELSE LET k == CHOOSE x \in ks : TRUE
         IN Len(st.dag[k]) + NodeCount(st, ks \ {k})

Min(a, b) == IF a <= b THEN a ELSE b

NodeSet(st, k) == {st.dag[k][i] : i \in 1..Len(st.dag[k])}

\* C17: after gc(N) with N >= 1 every (pk, col) with a cell retains exactly
\* min(N, previous node count) DAG nodes, no removed node has a greater
\* version than a retained one, gc returns the node count before minus the
\* node count after over the whole table, and an immediately repeated gc(N)
\* returns 0.
C17_KeepLastN ==
    /\ last.op \in {"gc", "gc_again"} =>
          /\ \A k \in Keys : last.pre.cells[k].present =>
                /\ Len(peers[A].dag[k]) = Min(last.keep_n, Len(last.pre.dag[k]))
                /\ NodeSet(peers[A], k) \subseteq NodeSet(last.pre, k)
                /\ \A r \in NodeSet(last.pre, k) \ NodeSet(peers[A], k) :
                      \A q \in NodeSet(peers[A], k) : r.version <= q.version
          /\ last.removed = NodeCount(last.pre, Keys) - NodeCount(peers[A], Keys)
    /\ last.op = "gc_again" => last.removed = 0


\* C26: on either storage a column's DAG history never holds two nodes of
\* the same version (appending a version already present replaces the node).
C26_UniqueDagVersions ==
    \A k \in Keys :
        Cardinality(NodeVersions(peers[A], k)) = Len(get_dag_history(peers[A], k))

\* C27: after any run of inserts, updates, merges, deletes and gc calls the
\* history get_dag_history returns is in strictly ascending version order, on
\* either storage.
C27_HistoryAscending ==
    \A k \in Keys :
        LET history == get_dag_history(peers[A], k)
        IN \A i \in 1..(Len(history) - 1) : history[i].version < history[i + 1].version


\* The node the last append left in k's history: the row of that version
\* (sqlite), the last element of the Vec (memory).
WrittenNode(st, k, version) ==
    LET history == get_dag_history(st, k)
    IN IF st.kind = "memory" THEN history[Len(history)]
       ELSE CHOOSE n \in NodeSet(st, k) : n.version = version

\* The nodes of k that carry a secondary parent.
TwoParentNodes(st, k) == {n \in NodeSet(st, k) : n.parent2_version # None}

\* The version stored for k, or None when the cell is absent.
StoredVersion(st, k) == IF st.cells[k].present THEN st.cells[k].version ELSE None

\* C29: an insert or update commit appends a node whose primary parent is the
\* version stored before (none if the cell was new) and which has no
\* secondary parent; a merge insert appends a node at v_r without parents; a
\* merge update appends a node at v_r with primary parent v_l; a tiebreak
\* accept appends a node at v_r + 1 with primary parent v_l and secondary
\* parent v_r; and only a tiebreak accept adds a node with a secondary parent.
C29_NodeShape ==
    /\ last.op \in {"insert", "update"} =>
          LET k == last.k
              cell == peers[A].cells[k]
          IN /\ get_dag_history(peers[A], k) # <<>>
             /\ WrittenNode(peers[A], k, cell.version) =
                   DagNode(cell.version, last.value, StoredVersion(last.pre, k), None)
             /\ TwoParentNodes(peers[A], k) \subseteq TwoParentNodes(last.pre, k)
    /\ last.op = "merge" =>
          \A k \in CsKeys(last.cs) :
              LET v_r == last.cs.vers[k]
                  v_l == last.pre.cells[k].version
                  value == last.cs.cols[k]
                  expect(version, parent, parent2) ==
                      /\ get_dag_history(peers[A], k) # <<>>
                      /\ WrittenNode(peers[A], k, version) =
                            DagNode(version, value, parent, parent2)
              IN CASE last.report.inserted = 1 ->
                        /\ expect(v_r, None, None)
                        /\ TwoParentNodes(peers[A], k) \subseteq TwoParentNodes(last.pre, k)
                   [] last.report.updated = 1 /\ last.report.conflicts = 0 ->
                        /\ expect(v_r, v_l, None)
                        /\ TwoParentNodes(peers[A], k) \subseteq TwoParentNodes(last.pre, k)
                   [] last.report.updated = 1 /\ last.report.conflicts = 1 ->
                        expect(v_r + 1, v_l, v_r)
                   [] OTHER ->
                        get_dag_history(peers[A], k) = get_dag_history(last.pre, k)


\* C30: insert, update and merge never remove a DAG node and never change
\* the value or the parents of a node already in a column's history.
C30_HistoryAppendOnly ==
    last.op \in {"insert", "update", "merge"} =>
        \A k \in Keys :
            /\ NodeSet(last.pre, k) \subseteq NodeSet(peers[A], k)
            /\ Len(get_dag_history(peers[A], k)) >= Len(get_dag_history(last.pre, k))


\* The parent versions a node records.
ParentsOf(n) == {n.parent_version, n.parent2_version} \ {None}

\* C31: in every state reached by inserts, updates, merges, deletes and gc
\* calls, each primary or secondary parent version recorded on a DAG node
\* names a node of the same column's history or a version an earlier gc call
\* removed from that history.
C31_ParentsResolve ==
    \A k \in Keys : \A n \in NodeSet(peers[A], k) : \A parent \in ParentsOf(n) :
        parent \in NodeVersions(peers[A], k) \/ <<k, parent>> \in inputs

\* A gc call has just removed a version that a remaining node names as its
\* parent.
C31_Witness ==
    /\ last.op = "gc"
    /\ \E k \in Keys : \E n \in NodeSet(peers[A], k) : \E parent \in ParentsOf(n) :
           /\ parent \notin NodeVersions(peers[A], k)
           /\ parent \in NodeVersions(last.pre, k)
           /\ <<k, parent>> \in inputs

\* C38: in every state reached by inserts, updates and merges, each primary
\* or secondary parent version recorded on a DAG node is strictly smaller
\* than the node's own version.
C38_HistoryAcyclic ==
    \A k \in Keys : \A n \in NodeSet(peers[A], k) : \A parent \in ParentsOf(n) :
        parent < n.version

\* ------------------------------------------ SpecGcZero: gc with keep_n = 0
\* A table on either storage, built by local inserts and at most one update,
\* is collected with keep_n = 0, through CrrTable::gc or through run_gc.
InitGcZero ==
    \E kind \in Kinds, f \in Assignments(Keys) :
        /\ peers = [p \in {A} |-> TableOf(kind, f)]
        /\ free = [peers |-> <<>>, panicked |-> FALSE]
        /\ base = peers
        /\ mesh = MeshIdle
        /\ last = NoOp
        /\ edits = {}
        /\ pc = 0
        /\ inputs = {}

\* run_gc(table, policy) with policy KeepAll or KeepLast(n).
TableRunGc(policy) ==
    /\ TableRuns
    /\ LET res == run_gc(peers[A], policy)
       IN /\ peers' = [peers EXCEPT ![A] = IF res.panicked THEN @ ELSE res.st]
          /\ last' = [op |-> IF res.panicked THEN "gc_panic" ELSE "gc",
                      pre |-> peers[A], keep_n |-> policy, removed |-> res.removed]
    /\ pc' = pc + 1
    /\ UNCHANGED <<free, mesh, base, edits, inputs>>

NextGcZero ==
    \/ \E k \in Keys, value \in TableValues : Update(A, k, value)
    \/ TableGc(0)
    \/ \E policy \in {KeepAll, 0} : TableRunGc(policy)

SpecGcZero == InitGcZero /\ [][NextGcZero]_vars

\* C18: gc(0) and run_gc(KeepLast(0)) on a table with a non-empty column do
\* not abort, and afterwards the DAG node that backs each current cell is
\* still present (the call is refused or behaves as keep_n = 1), on both
\* storage implementations.
C18_GcZeroKeepsHead ==
    (/\ last.op \in {"gc", "gc_panic"}
     /\ last.keep_n = 0
     /\ \E k \in Keys : last.pre.cells[k].present /\ Len(last.pre.dag[k]) > 0) =>
        /\ last.op = "gc"
        /\ \A k \in Keys :
              (/\ last.pre.cells[k].present
               /\ last.pre.cells[k].version \in NodeVersions(last.pre, k))
                  => peers[A].cells[k].version \in NodeVersions(peers[A], k)

\* --------------------------- SpecGcRuns: two runs that differ only in gc calls
\* Two peers on the same storage kind, empty after construction.  peers is
\* the run with gc calls, free.peers the run without: every insert, update,
\* merge and session is made in both runs, gc(keep_n >= 1) only in peers.
\* pc counts the operations other than gc; last holds what the last of them
\* returned in each run.
InitGcRuns ==
    \E kind \in Kinds :
        /\ peers = [p \in {A, B} |-> EmptyStorage(kind)]
        /\ free = [peers |-> [p \in {A, B} |-> EmptyStorage(kind)], panicked |-> FALSE]
        /\ base = peers
        /\ mesh = MeshIdle
        /\ last = NoOp
        /\ edits = {}
        /\ pc = 0
        /\ inputs = <<>>

\* gc has removed a node that the run without gc still holds.
Pruned == \E p \in {A, B}, k \in Keys : Len(peers[p].dag[k]) < Len(free.peers[p].dag[k])

GcRuns == pc < MaxOps /\ last.op # "panic"

GcRunInsert(p, k, value, version) ==
    /\ GcRuns
    /\ peers' = [peers EXCEPT ![p] = InsertColumn(@, k, value, version)]
    /\ free' = [free EXCEPT !.peers[p] = InsertColumn(@, k, value, version)]
    /\ last' = [op |-> "insert", pruned |-> Pruned, with_gc |-> <<>>, without_gc |-> <<>>]
    /\ pc' = pc + 1
    /\ UNCHANGED <<mesh, base, edits, inputs>>

GcRunUpdate(p, k, value) ==
    /\ GcRuns
    /\ peers' = [peers EXCEPT ![p] = UpdateColumn(@, k, value)]
    /\ free' = [free EXCEPT !.peers[p] = UpdateColumn(@, k, value)]
    /\ last' = [op |-> "update", pruned |-> Pruned, with_gc |-> <<>>, without_gc |-> <<>>]
    /\ pc' = pc + 1
    /\ UNCHANGED <<mesh, base, edits, inputs>>

GcRunMerge(p, k, value, version, policy) ==
    /\ GcRuns
    /\ LET cs == [cols |-> [x \in {k} |-> value], vers |-> [x \in {k} |-> version]]
           res == merge(peers[p], cs, policy)
           ref == merge(free.peers[p], cs, policy)
       IN /\ peers' = [peers EXCEPT ![p] = IF res.panicked THEN @ ELSE res.st]
          /\ free' = [free EXCEPT !.peers[p] = IF ref.panicked THEN @ ELSE ref.st]
          /\ last' = [op |-> IF res.panicked /\ ref.panicked THEN "panic" ELSE "merge",
                      pruned |-> Pruned,
                      with_gc |-> <<res.panicked, res.report>>,
                      without_gc |-> <<ref.panicked, ref.report>>]
    /\ pc' = pc + 1
    /\ UNCHANGED <<mesh, base, edits, inputs>>

GcRunSession(policy) ==
    /\ GcRuns
    /\ LET res == sync(peers[A], peers[B], policy)
           ref == sync(free.peers[A], free.peers[B], policy)
       IN /\ peers' = [peers EXCEPT ![A] = res.a, ![B] = res.b]
          /\ free' = [free EXCEPT !.peers[A] = ref.a, !.peers[B] = ref.b]
          /\ last' = [op |-> IF res.panicked /\ ref.panicked THEN "panic" ELSE "sync",
                      pruned |-> Pruned,
                      with_gc |-> <<res.panicked, res.a_to_b, res.b_to_a>>,
                      without_gc |-> <<ref.panicked, ref.a_to_b, ref.b_to_a>>]
    /\ pc' = pc + 1
    /\ UNCHANGED <<mesh, base, edits, inputs>>

\* gc(keep_n) on peer p of the run with gc calls, at any point.
GcRunGc(p, keep_n) ==
    /\ last.op # "panic"
    /\ LET res == gc(peers[p], keep_n)
       IN peers' = [peers EXCEPT ![p] = IF res.panicked THEN @ ELSE res.st]
    /\ UNCHANGED <<free, mesh, last, base, edits, pc, inputs>>

NextGcRuns ==
    \/ \E p \in {A, B}, k \in Keys, value \in TableValues, version \in 0..MaxVersion :
          GcRunInsert(p, k, value, version)
    \/ \E p \in {A, B}, k \in Keys, value \in TableValues : GcRunUpdate(p, k, value)
    \/ \E p \in {A, B}, k \in Keys, value \in TableValues, version \in 0..MaxVersion,
          policy \in Policies : GcRunMerge(p, k, value, version, policy)
    \/ \E policy \in Policies : GcRunSession(policy)
    \/ \E p \in {A, B}, keep_n \in 1..MaxKeep : GcRunGc(p, keep_n)

SpecGcRuns == InitGcRuns /\ [][NextGcRuns]_vars

\* C19: a run with gc(keep_n >= 1) calls on any peers at any points and the
\* run without them hold the same (value, version) in every cell of every
\* peer at every point, and every merge and every session reports the same
\* counts (and aborts or returns alike) in both.
C19_GcCoordinationFree ==
    /\ cells_of(peers) = cells_of(free.peers)
    /\ last.op # "none" => last.with_gc = last.without_gc

\* A session that changed a cell after gc had removed nodes on one peer only.
C19_Witness ==
    /\ last.op = "sync"
    /\ last.pruned
    /\ total_changes(last.with_gc[2]) + total_changes(last.with_gc[3]) > 0
    /\ \E k \in Keys : Len(peers[A].dag[k]) < Len(free.peers[A].dag[k])
    /\ \A k \in Keys : Len(peers[B].dag[k]) = Len(free.peers[B].dag[k])

\* ------------------------------- SpecZombie: soft delete, gc, then a session
\* Two peers with tables built by local inserts.  Peer A soft-deletes columns
\* and runs gc once, in any order, then one session runs.  edits holds the
\* soft-deleted cells <<A, key>>, pc the keep_n of the gc call made.
TOMBSTONE == <<95, 95, 84, 79, 77, 66, 83, 84, 79, 78, 69, 95, 95>>

\* soft_delete for one column: an insert of the sentinel at current + 1.
soft_delete(st, k) ==
    LET cell == get_cell(st, k)
        current_version == IF cell.present THEN cell.version ELSE 0
    IN InsertColumn(st, k, TOMBSTONE, current_version + 1)

ZombieAssignments ==
    {f \in Assignments(Keys) : \A k \in Keys : f[k].present => f[k].value \in TableValues}

InitZombie ==
    \E f \in [{A, B} -> ZombieAssignments] :
        /\ peers = [p \in {A, B} |-> TableOf("sqlite", f[p])]
        /\ free = [peers |-> <<>>, panicked |-> FALSE]
        /\ base = peers
        /\ mesh = MeshIdle
        /\ last = NoOp
        /\ edits = {}
        /\ pc = {}
        /\ inputs = <<>>

SoftDelete(k) ==
    /\ last.op = "none"
    /\ <<A, k>> \notin edits
    /\ peers' = [peers EXCEPT ![A] = soft_delete(@, k)]
    /\ edits' = edits \cup {<<A, k>>}
    /\ UNCHANGED <<free, mesh, last, base, pc, inputs>>

\* run_gc(peer_a, KeepLast(keep_n)) before the session.
ZombieGc(keep_n) ==
    /\ last.op = "none"
    /\ pc = {}
    /\ LET res == run_gc(peers[A], keep_n)
       IN peers' = [peers EXCEPT ![A] = IF res.panicked THEN @ ELSE res.st]
    /\ pc' = pc \cup {keep_n}
    /\ UNCHANGED <<free, mesh, last, base, edits, inputs>>

NextZombie ==
    \/ \E k \in Keys : SoftDelete(k)
    \/ \E keep_n \in 1..MaxKeep : ZombieGc(keep_n)
    \/ \E policy \in Policies : Session(policy)

SpecZombie == InitZombie /\ [][NextZombie]_vars

\* A held the tombstone in k at a version above the one B held k at.
TombstoneAhead(k) ==
    /\ last.pre[A].cells[k].present
    /\ last.pre[A].cells[k].value = TOMBSTONE
    /\ last.pre[B].cells[k].present
    /\ last.pre[B].cells[k].version < last.pre[A].cells[k].version

\* C20: when peer A holds a tombstone cell at version V, peer B holds that
\* cell at a smaller version and A has run gc(keep_n >= 1), then after one
\* LexicographicMin session both peers hold the tombstone value at version V.
C20_TombstoneWins ==
    (/\ last.op = "sync"
     /\ last.policy = "LexicographicMin"
     /\ pc # {}) =>
        \A k \in Keys : TombstoneAhead(k) =>
            /\ peers[A].cells[k] = Cell(TOMBSTONE, last.pre[A].cells[k].version)
            /\ peers[B].cells[k] = Cell(TOMBSTONE, last.pre[A].cells[k].version)

\* A soft-deleted both columns of a row B still holds, gc(1) removed the
\* nodes of the old values, and the session gave B both tombstones.
C20_Witness ==
    /\ last.op = "sync"
    /\ last.policy = "LexicographicMin"
    /\ 1 \in pc
    /\ \A k \in Keys :
          /\ <<A, k>> \in edits
          /\ TombstoneAhead(k)
          /\ Len(last.pre[A].dag[k]) = 1
          /\ last.pre[B].cells[k].value # TOMBSTONE
          /\ peers[B].cells[k].value = TOMBSTONE
    /\ last.a_to_b.updated = 2

\* ------------------------------------- SpecRoundTrip: changeset into a fresh table
\* Peer A holds a table T built by local inserts and at most one update; peer
\* B is a fresh empty table of the same storage, which merges T.changeset().
InitRoundTrip ==
    \E kind \in Kinds, f \in Assignments(Keys) :
        /\ peers = [p \in {A, B} |-> IF p = A THEN TableOf(kind, f) ELSE EmptyStorage(kind)]
        /\ free = [peers |-> <<>>, panicked |-> FALSE]
        /\ base = peers
        /\ mesh = MeshIdle
        /\ last = NoOp
        /\ edits = {}
        /\ pc = <<>>
        /\ inputs = <<>>

\* fresh.merge(T.changeset(), policy)
RoundTrip(policy) ==
    /\ last.op = "none"
    /\ LET cs == changeset(peers[A])
           res == merge(peers[B], cs, policy)
       IN /\ peers' = [peers EXCEPT ![B] = IF res.panicked THEN @ ELSE res.st]
          /\ last' = [op |-> IF res.panicked THEN "merge_panic" ELSE "merge",
                      pre |-> peers[B], cs |-> cs, policy |-> policy,
                      report |-> res.report]
    /\ UNCHANGED <<free, mesh, base, edits, pc, inputs>>

NextRoundTrip ==
    \/ \E k \in Keys, value \in Values : Update(A, k, value)
    \/ \E policy \in Policies : RoundTrip(policy)

SpecRoundTrip == InitRoundTrip /\ [][NextRoundTrip]_vars

\* C21: merging T.changeset() into a fresh empty table, under any policy,
\* returns; the fresh table then holds exactly T's cells (pk, column, value,
\* version), and the report counts one insert per cell of T and no update,
\* skip or conflict.
C21_ChangesetRoundTrip ==
    last.op \in {"merge", "merge_panic"} =>
        /\ last.op = "merge"
        /\ peers[B].cells = peers[A].cells
        /\ last.report = [EmptyReport EXCEPT !.inserted = Cardinality(CellKeys(peers[A]))]

\* --------------------------- SpecMeshRounds: the two sync_all loops, any policy
\* Every peer's table comes from local inserts.  pc says which sync_all is
\* called: "sync" for sync::MeshSync on peers, "legacy" for
\* sync_protocol::MeshSync on the legacy tables free.peers, whose loop
\* position is free.mesh.  ids is the order of the HashMap's keys.
RECURSIVE LegacyInsertAll(_, _, _)
LegacyInsertAll(t, assign, todo) ==
    IF todo = {} THEN t
    ELSE LET k == CHOOSE x \in todo : TRUE
         IN LegacyInsertAll(IF assign[k].present
                            THEN insert_or_update(t, k, assign[k].value, assign[k].version)
                            ELSE t, assign, todo \ {k})

LegacyIdle == [status |-> "idle", ids |-> <<>>, rounds |-> 0, changed |-> TRUE,
               i |-> 1, j |-> 2, round_writes |-> 0, zero_rounds |-> 0]

MeshAssignments ==
    {f \in Assignments(MeshKeys) : \A k \in MeshKeys : f[k].present => f[k].value \in TableValues}

InitMeshRounds ==
    \E f \in [Peers -> MeshAssignments], policy \in Policies, impl \in {"sync", "legacy"} :
        /\ peers = [p \in Peers |-> TableOf("sqlite", f[p])]
        /\ free = [peers |-> [p \in Peers |-> LegacyInsertAll(LegacyEmpty, f[p], Keys)],
                   mesh |-> LegacyIdle, policy |-> policy]
        /\ base = peers
        /\ mesh = [MeshIdle EXCEPT !.policy = policy]
        /\ last = NoOp
        /\ edits = {}
        /\ pc = impl
        /\ inputs = <<>>

\* The orders in which a HashMap of the peers can yield its keys.
KeyOrders ==
    {ids \in [1..NumPeers -> Peers] : \A x, y \in 1..NumPeers : x # y => ids[x] # ids[y]}

\* Entry of the legacy sync_all: the ids are collected, and the first pass of
\* the while loop begins (changed = false, rounds = 1).
LegacyMeshStart(ids) ==
    /\ free.mesh.status = "idle"
    /\ free' = [free EXCEPT !.mesh = [@ EXCEPT !.status = IF NumPeers < 2 THEN "done" ELSE "running",
                                               !.ids = ids, !.rounds = 1,
                                               !.changed = FALSE]]
    /\ UNCHANGED <<peers, mesh, last, base, edits, pc, inputs>>

\* One pairwise session of the current pass; after the last pair the loop
\* breaks when rounds > 100 and otherwise goes on while changed.
LegacyMeshSession ==
    /\ free.mesh.status = "running"
    /\ LET m == free.mesh
           id_a == m.ids[m.i]
           id_b == m.ids[m.j]
           result == legacy_sync(free.peers[id_a], free.peers[id_b], free.policy)
           changed == m.changed \/ result.result_a.columns_updated > 0
                                \/ result.result_b.columns_updated > 0
           round_writes == m.round_writes + result.result_a.columns_updated
                                          + result.result_b.columns_updated
           last_pair == (m.i = NumPeers - 1 /\ m.j = NumPeers)
           zero_rounds == IF round_writes = 0 THEN m.zero_rounds + 1 ELSE m.zero_rounds
       IN free' = [free EXCEPT
              !.peers = [@ EXCEPT ![id_a] = result.a, ![id_b] = result.b],
              !.mesh = IF ~last_pair
                       THEN [m EXCEPT !.changed = changed,
                                      !.round_writes = round_writes,
                                      !.i = IF m.j < NumPeers THEN m.i ELSE m.i + 1,
                                      !.j = IF m.j < NumPeers THEN m.j + 1 ELSE m.i + 2]
                       ELSE IF m.rounds > RoundCap \/ ~changed
                       THEN [m EXCEPT !.status = "done", !.changed = changed,
                                      !.round_writes = round_writes,
                                      !.zero_rounds = zero_rounds]
                       ELSE [m EXCEPT !.rounds = @ + 1, !.changed = FALSE,
                                      !.i = 1, !.j = 2, !.round_writes = 0,
                                      !.zero_rounds = zero_rounds]]
    /\ UNCHANGED <<peers, mesh, last, base, edits, pc, inputs>>

NextMeshRounds ==
    \/ pc = "sync" /\ MeshStart
    \/ pc = "sync" /\ MeshSession
    \/ pc = "legacy" /\ \E ids \in KeyOrders : LegacyMeshStart(ids)
    \/ pc = "legacy" /\ LegacyMeshSession

SpecMeshRounds == InitMeshRounds /\ [][NextMeshRounds]_vars

\* The sync_all under way has ended: it returned, or a session's merge
\* panicked and took the call down with it.
MeshEnded ==
    IF pc = "sync" THEN mesh.status \in {"done", "panicked"} ELSE free.mesh.status = "done"

\* The rounds begun so far, and the rounds that completed without any insert
\* or update being reported.
RoundsBegun == IF pc = "sync" THEN mesh.round + 1 ELSE free.mesh.rounds

ZeroRounds == IF pc = "sync" THEN mesh.zero_rounds ELSE free.mesh.zero_rounds

\* The pairwise sessions completed so far by the sync_all under way.
SessionsRun ==
    LET pairs == (NumPeers * (NumPeers - 1)) \div 2
        before(i, j) == (i - 1) * NumPeers - ((i - 1) * i) \div 2 + (j - i - 1)
        m == IF pc = "sync" THEN mesh ELSE free.mesh
    IN IF m.status = "idle" THEN 0
       ELSE IF m.status = "done" THEN RoundsBegun * pairs
       ELSE (RoundsBegun - 1) * pairs + before(m.i, m.j)

\* What C24 says of one state of a sync_all call.
MeshRoundsBounded ==
    /\ RoundsBegun <= RoundCap
    /\ SessionsRun <= RoundCap * ((NumPeers * (NumPeers - 1)) \div 2)
    /\ ZeroRounds <= 1
    /\ ZeroRounds = 1 => MeshEnded
    /\ (MeshEnded /\ pc = "sync" /\ mesh.status = "done") =>
          (ZeroRounds = 1 \/ RoundsBegun = RoundCap)
    /\ (MeshEnded /\ pc = "legacy") => ZeroRounds = 1

\* C24: under every policy and from every peer state sync_all ends within
\* 100 full rounds of pairwise sessions, visited in index order: every step
\* of the loop completes the next pair's session (or is the panic of that
\* session's merge), never more than 100 rounds of them; the loop never goes
\* on after a round in which the sessions reported zero changes; and when it
\* returns, either the last round reported zero changes or it was the 100th.
C24_MeshTerminates ==
    [][/\ MeshRoundsBounded'
       /\ MeshEnded' \/ SessionsRun' = SessionsRun + 1 \/ SessionsRun' = 0
       /\ MeshEnded' => (SessionsRun' >= SessionsRun)]_vars

\* sync_all returned at the round cap with its last round still changing cells.
C24_Witness ==
    /\ pc = "sync"
    /\ mesh.status = "done"
    /\ mesh.round + 1 = RoundCap
    /\ mesh.round_writes > 0


\* Peers p and q of ps hold k at the same version with different values.
Tied(ps, p, q, k) ==
    /\ ps[p].cells[k].present /\ ps[q].cells[k].present
    /\ ps[p].cells[k].version = ps[q].cells[k].version
    /\ ps[p].cells[k].value # ps[q].cells[k].value

\* Two peers are tied on k at the highest version any peer of the mesh holds.
TiedAtTop(ps, k) ==
    \E p, q \in Peers :
        /\ Tied(ps, p, q, k)
        /\ \A r \in Peers : ps[r].cells[k].present =>
               ps[r].cells[k].version <= ps[p].cells[k].version

\* C34: under PreferIncoming a session between two peers tied on a cell at
\* version v leaves each with the other's former value at v + 1, so they are
\* tied again; and a sync_all that starts with two peers tied at the highest
\* version in the mesh returns only after all 100 rounds, none of them
\* without a change, with the peers still disagreeing.
C34_PreferIncomingNeverSettles ==
    [][(pc = "sync" /\ mesh.policy = "PreferIncoming") =>
         /\ \A k \in MeshKeys :
               (mesh.status = "running" /\ Tied(peers, mesh.i, mesh.j, k)) =>
                  /\ peers'[mesh.i].cells[k] =
                        Cell(peers[mesh.j].cells[k].value, peers[mesh.i].cells[k].version + 1)
                  /\ peers'[mesh.j].cells[k] =
                        Cell(peers[mesh.i].cells[k].value, peers[mesh.j].cells[k].version + 1)
                  /\ Tied(peers', mesh.i, mesh.j, k)
         /\ (mesh'.status = "done" /\ \E k \in MeshKeys : TiedAtTop(base, k)) =>
               /\ mesh'.round + 1 = RoundCap
               /\ mesh'.zero_rounds = 0
               /\ mesh'.round_writes > 0
               /\ ~AllAgree(peers')]_vars

\* sync_all under PreferIncoming has returned from its 100th round on a mesh
\* that began with two tied peers, which are still tied.
C34_Witness ==
    /\ pc = "sync"
    /\ mesh.policy = "PreferIncoming"
    /\ mesh.status = "done"
    /\ mesh.round + 1 = RoundCap
    /\ \E k \in MeshKeys : TiedAtTop(base, k) /\ \E p, q \in Peers : Tied(peers, p, q, k)


\* sync_protocol::MeshSync::is_converged, with first the peer the key
\* iteration yields first: every other peer has as many rows, has each of
\* first's rows, and holds the same columns and versions in it.
is_converged(ps, first) ==
    \A id \in Peers \ {first} :
        /\ Cardinality(ps[first].rows) = Cardinality(ps[id].rows)
        /\ \A pk \in ps[first].rows :
              /\ pk \in ps[id].rows
              /\ \A k \in {x \in Keys : x[1] = pk} : ps[first].cells[k] = ps[id].cells[k]

\* C32: after the legacy sync_all returns under LexicographicMin,
\* is_converged() is true, whatever the peers' tables were.
C32_LegacyMeshConverges ==
    (pc = "legacy" /\ free.policy = "LexicographicMin" /\ free.mesh.status = "done") =>
        \A first \in Peers : is_converged(free.peers, first)

\* --------------------------------------------- SpecDelete: hard delete of a row
\* One table over two rows of two columns, empty at first, goes through a
\* run of up to MaxOps inserts, updates, hard deletes and gc calls.
DeletePKs == {"u1", "u2"}
DeleteKeys == DeletePKs \X Cols

InitDelete ==
    \E kind \in Kinds :
        /\ peers = [p \in {A} |-> EmptyStorageOver(kind, DeleteKeys)]
        /\ free = [peers |-> <<>>, panicked |-> FALSE]
        /\ base = peers
        /\ mesh = MeshIdle
        /\ last = NoOp
        /\ edits = {}
        /\ pc = 0
        /\ inputs = {}

NextDelete ==
    \/ \E k \in DeleteKeys, value \in TableValues, version \in 0..MaxVersion :
          TableInsert(k, value, version)
    \/ \E k \in DeleteKeys, value \in TableValues : TableUpdate(k, value)
    \/ \E pk \in DeletePKs : TableDelete(pk)
    \/ \E keep_n \in 1..MaxKeep : TableGc(keep_n)

SpecDelete == InitDelete /\ [][NextDelete]_vars

\* C25: delete(pk) leaves no cell and no DAG node of pk (get(pk) is absent,
\* pk is not in pks(), every column's history of pk is empty), and the cells
\* and DAG nodes of every other pk are as they were.
C25_HardDelete ==
    last.op = "delete" =>
        /\ RowCols(peers[A], last.pk) = {}
        /\ last.pk \notin all_pks(peers[A])
        /\ \A k \in DeleteKeys :
              IF k[1] = last.pk
              THEN ~get_cell(peers[A], k).present /\ get_dag_history(peers[A], k) = <<>>
              ELSE /\ get_cell(peers[A], k) = get_cell(last.pre, k)
                   /\ get_dag_history(peers[A], k) = get_dag_history(last.pre, k)

\* A delete of a row that held a cell and history, next to another row that
\* holds a cell.
C25_Witness ==
    /\ last.op = "delete"
    /\ \E k \in DeleteKeys : k[1] = last.pk /\ last.pre.cells[k].present
                             /\ last.pre.dag[k] # <<>>
    /\ \E k \in DeleteKeys : k[1] # last.pk /\ peers[A].cells[k].present
                             /\ peers[A].dag[k] # <<>>
\* ------------------------------------- SpecDag: dag::VersionDag (lib.rs)
\* One VersionDag built by add_node calls with any versions and parent
\* lists, then pruned by one gc_depth_based call.
MaxNodes == 3
MaxDepth == 3

DagVersions == 1..MaxNodes

\* The parent lists add_node is given: none, one or two versions.
ParentLists ==
    {<<>>} \cup {<<v>> : v \in DagVersions} \cup {<<v, w>> : v, w \in DagVersions}

\* The while loop of gc_depth_based: to_visit is the stack of (version, d)
\* pairs, popped from its end; the result is the reachable set.
RECURSIVE Visit(_, _, _, _)
Visit(dag, depth, reachable, to_visit) ==
    IF to_visit = <<>> THEN reachable
    ELSE LET version == to_visit[Len(to_visit)][1]
             d == to_visit[Len(to_visit)][2]
             rest == SubSeq(to_visit, 1, Len(to_visit) - 1)
         IN IF version \in reachable \/ d >= depth
            THEN Visit(dag, depth, reachable, rest)
            ELSE LET parents == IF version \in DOMAIN dag.nodes
                                THEN dag.nodes[version].parent_versions ELSE <<>>
                     pushed == IF d + 1 < depth
                               THEN [i \in 1..Len(parents) |-> <<parents[i], d + 1>>]
                               ELSE <<>>
                 IN Visit(dag, depth, reachable \cup {version}, rest \o pushed)

\* VersionDag::gc_depth_based; the result is [dag, removed].
gc_depth_based(dag, depth) ==
    IF depth = 0 \/ dag.head = None THEN [dag |-> dag, removed |-> 0]
    ELSE LET reachable == Visit(dag, depth, {}, <<<<dag.head, 0>>>>)
             to_remove == {v \in DOMAIN dag.nodes : v \notin reachable}
         IN [dag |-> [dag EXCEPT !.nodes = [v \in DOMAIN dag.nodes \ to_remove |-> dag.nodes[v]]],
             removed |-> Cardinality(to_remove)]

InitDag ==
    /\ peers = EmptyDag
    /\ free = [peers |-> <<>>, panicked |-> FALSE]
    /\ base = <<>>
    /\ mesh = MeshIdle
    /\ last = NoOp
    /\ edits = {}
    /\ pc = 0
    /\ inputs = {}

\* dag.add_node(version, value, parent_versions)
DagAddNode(version, value, parent_versions) ==
    /\ last.op \in {"none", "add_node"}
    /\ pc < MaxNodes
    /\ peers' = add_node(peers, version, value, parent_versions)
    /\ last' = [op |-> "add_node"]
    /\ pc' = pc + 1
    /\ UNCHANGED <<free, mesh, base, edits, inputs>>

\* dag.gc_depth_based(depth)
DagGc(depth) ==
    /\ last.op \in {"none", "add_node"}
    /\ LET res == gc_depth_based(peers, depth)
       IN /\ peers' = res.dag
          /\ last' = [op |-> "gc_depth_based", pre |-> peers, depth |-> depth,
                      removed |-> res.removed]
    /\ UNCHANGED <<free, mesh, base, edits, pc, inputs>>

NextDag ==
    \/ /\ last.op \in {"none", "add_node"} /\ pc < MaxNodes
       /\ \E version \in DagVersions, value \in {<<97>>}, parent_versions \in ParentLists :
             DagAddNode(version, value, parent_versions)
    \/ /\ last.op \in {"none", "add_node"}
       /\ \E depth \in 0..MaxDepth : DagGc(depth)

SpecDag == InitDag /\ [][NextDag]_vars

\* The versions of the nodes reached from the head by walking at most n
\* parent edges, each edge leading from a node to a parent that has a node.
RECURSIVE WithinEdges(_, _)
WithinEdges(dag, n) ==
    IF n = 0 THEN {dag.head} \cap DOMAIN dag.nodes
    ELSE LET near == WithinEdges(dag, n - 1)
         IN near \cup {v \in DOMAIN dag.nodes :
                          \E w \in near : \E i \in 1..Len(dag.nodes[w].parent_versions) :
                              dag.nodes[w].parent_versions[i] = v}

\* C33: for every DAG with a head and every depth D >= 1, gc_depth_based(D)
\* retains exactly the nodes reachable from the head by at most D parent
\* edges, unchanged, removes the others, returns the number removed and
\* keeps the head node.
C33_GcDepthBased ==
    (last.op = "gc_depth_based" /\ last.depth >= 1 /\ last.pre.head # None) =>
        /\ DOMAIN peers.nodes = WithinEdges(last.pre, last.depth)
        /\ \A v \in DOMAIN peers.nodes : peers.nodes[v] = last.pre.nodes[v]
        /\ last.removed = Cardinality(DOMAIN last.pre.nodes \ DOMAIN peers.nodes)
        /\ peers.head = last.pre.head
        /\ peers.head \in DOMAIN peers.nodes

\* ------------------- SpecLegacyMerge: crr_merge (lib.rs) and merge (table.rs)
\* The same cells are inserted into a LegacyCrrTable and into a CrrTable;
\* both merge the same changeset under the same policy, and may merge it
\* once more.
InitLegacyMerge ==
    \E f \in Assignments(Keys) :
        /\ peers = [p \in {A} |-> TableOf("sqlite", f)]
        /\ free = [t |-> LegacyInsertAll(LegacyEmpty, f, Keys)]
        /\ base = peers
        /\ mesh = MeshIdle
        /\ last = NoOp
        /\ edits = {}
        /\ pc = 0
        /\ inputs = {}

\* table.merge(cs, policy) and legacy.crr_merge(cs, policy)
BothMerge(cs, policy) ==
    /\ last.op \in {"none", "both_merge"}
    /\ pc < 2
    /\ LET res == merge(peers[A], cs, policy)
           legacy == crr_merge(free.t, cs, policy)
       IN /\ peers' = [peers EXCEPT ![A] = IF res.panicked THEN @ ELSE res.st]
          /\ free' = [t |-> legacy.t]
          /\ last' = [op |-> IF res.panicked THEN "merge_panic" ELSE "both_merge",
                      pre |-> peers[A], legacy_pre |-> free.t, cs |-> cs,
                      policy |-> policy, report |-> res.report,
                      legacy_report |-> legacy.report]
    /\ pc' = pc + 1
    /\ UNCHANGED <<mesh, base, edits, inputs>>

NextLegacyMerge ==
    \/ /\ last.op = "none"
       /\ \E cs \in Changesets(Keys), policy \in Policies : BothMerge(cs, policy)
    \/ /\ last.op = "both_merge"
       /\ BothMerge(last.cs, last.policy)

SpecLegacyMerge == InitLegacyMerge /\ [][NextLegacyMerge]_vars

\* Every cell of the changeset carries an explicit version of at least 1.
ExplicitVersions(cs) ==
    \A k \in CsKeys(cs) : k \in DOMAIN cs.vers /\ cs.vers[k] >= 1

\* C40: from the same cells, with a changeset whose cells all carry an
\* explicit version >= 1 and the same policy, crr_merge and merge both
\* return and leave the same value and version in every (pk, col).
C40_LegacyMergeAgrees ==
    (last.op \in {"both_merge", "merge_panic"} /\ ExplicitVersions(last.cs)
       /\ last.pre.cells = last.legacy_pre.cells) =>
        /\ last.op = "both_merge"
        /\ \A k \in Keys : peers[A].cells[k] = free.t.cells[k]

\* Both merges took the remote value of a tie and inserted an absent cell.
C40_Witness ==
    /\ last.op = "both_merge"
    /\ pc = 1
    /\ ExplicitVersions(last.cs)
    /\ \E k \in CsKeys(last.cs) :
          /\ IsTie(last.pre, last.cs, k)
          /\ free.t.cells[k] = Cell(last.cs.cols[k], last.cs.vers[k] + 1)
    /\ \E k \in CsKeys(last.cs) : ~last.pre.cells[k].present /\ free.t.cells[k].present

\* ------------------------ SpecTwin: one run on MemoryStorage and on SqliteStorage
\* The same operations are applied, one after the other, to a CrrTable over
\* MemoryStorage (peers[A]) and to a CrrTable over SqliteStorage (peers[B]).
InitTwin ==
    /\ peers = [p \in {A, B} |-> EmptyStorage(IF p = A THEN "memory" ELSE "sqlite")]
    /\ free = [peers |-> <<>>, panicked |-> FALSE]
    /\ base = peers
    /\ mesh = MeshIdle
    /\ last = NoOp
    /\ edits = {}
    /\ pc = 0
    /\ inputs = {}

\* insert(pk).column(col, value, version).commit() on both tables
TwinInsert(k, value, version) ==
    /\ TableRuns
    /\ peers' = [p \in {A, B} |-> InsertColumn(peers[p], k, value, version)]
    /\ last' = [op |-> "insert", result |-> [p \in {A, B} |-> 0]]
    /\ pc' = pc + 1
    /\ UNCHANGED <<free, mesh, base, edits, inputs>>

\* update(pk).column(col, value).commit() on both tables
TwinUpdate(k, value) ==
    /\ TableRuns
    /\ peers' = [p \in {A, B} |-> UpdateColumn(peers[p], k, value)]
    /\ last' = [op |-> "update", result |-> [p \in {A, B} |-> 0]]
    /\ pc' = pc + 1
    /\ UNCHANGED <<free, mesh, base, edits, inputs>>

\* merge(changeset, policy) of a one-cell changeset on both tables; the
\* result is the report.
TwinMerge(k, value, version, policy) ==
    /\ TableRuns
    /\ LET cs == [cols |-> [x \in {k} |-> value], vers |-> [x \in {k} |-> version]]
           res == [p \in {A, B} |-> merge(peers[p], cs, policy)]
           panicked == \E p \in {A, B} : res[p].panicked
       IN /\ peers' = [p \in {A, B} |-> IF res[p].panicked THEN peers[p] ELSE res[p].st]
          /\ last' = [op |-> IF panicked THEN "merge_panic" ELSE "merge",
                      result |-> [p \in {A, B} |-> res[p].report]]
    /\ pc' = pc + 1
    /\ UNCHANGED <<free, mesh, base, edits, inputs>>

\* delete(pk) on both tables
TwinDelete(pk) ==
    /\ TableRuns
    /\ peers' = [p \in {A, B} |-> delete(peers[p], pk)]
    /\ last' = [op |-> "delete", result |-> [p \in {A, B} |-> 0]]
    /\ pc' = pc + 1
    /\ UNCHANGED <<free, mesh, base, edits, inputs>>

\* gc(keep_n) on both tables; the result is the number of nodes removed.
TwinGc(keep_n) ==
    /\ TableRuns
    /\ LET res == [p \in {A, B} |-> gc(peers[p], keep_n)]
           panicked == \E p \in {A, B} : res[p].panicked
       IN /\ peers' = [p \in {A, B} |-> IF res[p].panicked THEN peers[p] ELSE res[p].st]
          /\ last' = [op |-> IF panicked THEN "gc_panic" ELSE "gc",
                      result |-> [p \in {A, B} |-> res[p].removed]]
    /\ pc' = pc + 1
    /\ UNCHANGED <<free, mesh, base, edits, inputs>>

NextTwin ==
    \/ \E k \in Keys, value \in TableValues, version \in 0..MaxVersion :
          TwinInsert(k, value, version)
    \/ \E k \in Keys, value \in TableValues : TwinUpdate(k, value)
    \/ \E k \in Keys, value \in TableValues, version \in 0..MaxVersion,
          policy \in Policies : TwinMerge(k, value, version, policy)
    \/ \E pk \in PKs : TwinDelete(pk)
    \/ \E keep_n \in 1..MaxKeep : TwinGc(keep_n)

SpecTwin == InitTwin /\ [][NextTwin]_vars

\* What the table API shows of a table: get (cells and the history of each
\* column that holds a cell), pks, len and changeset.
Observed(st) ==
    [cells |-> st.cells,
     history |-> [k \in {x \in DOMAIN st.cells : st.cells[x].present} |-> get_dag_history(st, k)],
     pks |-> all_pks(st),
     len |-> Cardinality(all_pks(st)),
     changeset |-> changeset(st)]

\* C35: after every sequence of inserts, updates, merges, deletes and
\* gc(keep_n >= 1) calls, the table over MemoryStorage and the table over
\* SqliteStorage show the same cells, histories, pks, len and changeset, and
\* the last merge report or gc count was the same on both.
C35_StoragesEquivalent ==
    /\ Observed(peers[A]) = Observed(peers[B])
    /\ last.op # "none" => last.result[A] = last.result[B]

====
